---- MODULE Spec2Model ----
(***************************************************************************)
(* Generative Art Studio: the parameter validation of BaseGenerator, the   *)
(* random-walk generator, the mathematical-patterns generator and the      *)
(* progress / abort protocol of the GUI shell (MainWindow).                *)
(*                                                                         *)
(* Numbers are fixed-point: the integer n stands for the Python number     *)
(* n / 20, so 0.5 is 10, 0.1 is 2 and one pixel is 20.  The random stream  *)
(* is a deterministic state machine (rng); one call of random.random()     *)
(* yields one of the fractions 0, 1/4, 1/2, 3/4.  Angles are counted in    *)
(* quarter turns, for which cos and sin are exact.                         *)
(***************************************************************************)
EXTENDS Integers, Sequences, FiniteSets, TLC

\* ------------------------------------------------------------------ bounds
MaxDim == 2      \* canvas width and height range over 1..MaxDim pixels
MaxWalks == 2    \* num_walks ranges up to MaxWalks
MaxSeed == 2     \* seed ranges up to MaxSeed
RngMod == 16     \* number of states of the random stream
MaxRawKeys == 1  \* entries of a raw parameter map that differ from a well-formed call
MaxLayers == 3   \* Generate is clicked while fewer layers than this are held

\* ------------------------------------------------------------ Python values
\* n / 20 is the number; U(k) is the integer k.
U(k) == 20 * k

Num(n) == [t |-> "num", n |-> n, s |-> ""]
Str(s) == [t |-> "str", n |-> 0, s |-> s]
Bool(b) == [t |-> "bool", n |-> IF b THEN U(1) ELSE 0, s |-> ""]
None == [t |-> "none", n |-> 0, s |-> ""]
NaN == [t |-> "nan", n |-> 0, s |-> ""]
\* The outcome of an expression that raises (s names the exception).
Raised(e) == [t |-> "raise", n |-> 0, s |-> e]

IsRaise(v) == v.t = "raise"

\* The strings the model knows to spell a number, with the number.
NumericStrings == {"12", "nan"}
ParseFloat(s) == IF s = "12" THEN Num(U(12)) ELSE IF s = "nan" THEN NaN ELSE Raised("ValueError")
ParseInt(s) == IF s = "12" THEN Num(U(12)) ELSE Raised("ValueError")

\* Truncation toward zero, as int() of a float.
Trunc(n) == IF n >= 0 THEN (n \div U(1)) * U(1) ELSE -(((-n) \div U(1)) * U(1))

\* int(value)
PyInt(v) ==
    CASE v.t = "num" -> Num(Trunc(v.n))
      [] v.t = "bool" -> Num(v.n)
      [] v.t = "str" -> ParseInt(v.s)
      [] v.t = "nan" -> Raised("ValueError")
      [] OTHER -> Raised("TypeError")

\* float(value)
PyFloat(v) ==
    CASE v.t = "num" -> v
      [] v.t = "bool" -> Num(v.n)
      [] v.t = "str" -> ParseFloat(v.s)
      [] v.t = "nan" -> NaN
      [] OTHER -> Raised("TypeError")

\* max(value, bound) and min(value, bound) of Python: the first argument is kept
\* unless the second compares greater (smaller); every comparison with NaN is
\* false, so a NaN first argument is returned.
PyMax(v, bound) == IF v.t = "nan" THEN v ELSE IF bound > v.n THEN Num(bound) ELSE v
PyMin(v, bound) == IF v.t = "nan" THEN v ELSE IF bound < v.n THEN Num(bound) ELSE v

\* bool(value)
PyBool(v) ==
    CASE v.t = "num" -> Bool(v.n # 0)
      [] v.t = "bool" -> v
      [] v.t = "str" -> Bool(v.s # "")
      [] v.t = "nan" -> Bool(TRUE)
      [] OTHER -> Bool(FALSE)

\* ------------------------------------------------------------------ schema
NoChoices == {}

IntDef(d, lo, hi) ==
    [type |-> "int", default |-> Num(U(d)), min |-> U(lo), max |-> U(hi), choices |-> NoChoices]
FloatDef(d, lo, hi) ==
    [type |-> "float", default |-> Num(d), min |-> lo, max |-> hi, choices |-> NoChoices]
ChoiceDef(d, cs) ==
    [type |-> "choice", default |-> Str(d), min |-> 0, max |-> 0, choices |-> cs]
ColorDef(d) ==
    [type |-> "color", default |-> Str(d), min |-> 0, max |-> 0, choices |-> NoChoices]
BoolDef(d) ==
    [type |-> "bool", default |-> Bool(d), min |-> 0, max |-> 0, choices |-> NoChoices]

ColorModes == {"monochrome", "grayscale", "color", "rainbow"}
StartPositions == {"center", "random", "edges", "corners"}
BoundaryBehaviors == {"bounce", "wrap", "stop", "ignore"}

\* RandomWalkGenerator.get_parameters
RandomWalkParameters ==
    [num_walks |-> IntDef(5, 1, 50),
     steps_per_walk |-> IntDef(1000, 10, 10000),
     step_size |-> FloatDef(U(5), 10, U(50)),
     angle_variation |-> FloatDef(U(180), 0, U(360)),
     line_width |-> FloatDef(U(1), 2, U(10)),
     color_mode |-> ChoiceDef("monochrome", ColorModes),
     base_color |-> ColorDef("#000000"),
     background_color |-> ColorDef("#FFFFFF"),
     start_position |-> ChoiceDef("center", StartPositions),
     boundary_behavior |-> ChoiceDef("bounce", BoundaryBehaviors),
     add_nodes |-> BoolDef(FALSE),
     seed |-> IntDef(0, 0, 999999)]

ParamNames == DOMAIN RandomWalkParameters

\* params.get(name, definition.get('default'))
DictGet(raw, name, default) == IF name \in DOMAIN raw THEN raw[name] ELSE default

\* The type-specific branch of validate_parameters for one parameter.
ValidateValue(definition, value) ==
    CASE definition.type = "int" ->
           LET v == PyInt(value)
           IN IF IsRaise(v) THEN v ELSE PyMin(PyMax(v, definition.min), definition.max)
      [] definition.type = "float" ->
           LET v == PyFloat(value)
           IN IF IsRaise(v) THEN v ELSE PyMin(PyMax(v, definition.min), definition.max)
      [] definition.type = "choice" ->
           IF value \notin {Str(c) : c \in definition.choices} THEN definition.default ELSE value
      [] definition.type = "bool" -> PyBool(value)
      [] OTHER -> value

ValidatedMap(param_defs, raw) ==
    [name \in DOMAIN param_defs |->
        ValidateValue(param_defs[name], DictGet(raw, name, param_defs[name].default))]

\* Whether validate_parameters raises on raw (some int() or float() raises), and
\* the map it returns when it does not.
ValidateRaises(param_defs, raw) ==
    \E name \in DOMAIN param_defs :
        IsRaise(ValidateValue(param_defs[name], DictGet(raw, name, param_defs[name].default)))

validate_parameters(param_defs, raw) == ValidatedMap(param_defs, raw)

\* The count an int parameter holds.
IntOf(v) == v.n \div U(1)

\* ------------------------------------------------------------------ colours
\* The characters of the colour strings of the model.
HexChars(s) ==
    CASE s = "#FFFFFF" -> <<"#", "F", "F", "F", "F", "F", "F">>
      [] s = "#000000" -> <<"#", "0", "0", "0", "0", "0", "0">>
      [] s = "#2E86AB" -> <<"#", "2", "E", "8", "6", "A", "B">>
      [] s = "#FFF" -> <<"#", "F", "F", "F">>
      [] s = "red" -> <<"r", "e", "d">>
      [] OTHER -> <<>>

HexDigits == <<"0", "1", "2", "3", "4", "5", "6", "7", "8", "9", "A", "B", "C", "D", "E", "F">>

\* The value of every hexadecimal character.
HexValue == [c \in {HexDigits[k] : k \in 1..Len(HexDigits)} |->
                (CHOOSE k \in 1..Len(HexDigits) : HexDigits[k] = c) - 1]

\* The value of one hexadecimal character, -1 when it is none.
HexDigit(c) == IF c \in DOMAIN HexValue THEN HexValue[c] ELSE -1

\* hex_color.lstrip('#')
RECURSIVE LStripHash(_)
LStripHash(cs) == IF cs # <<>> /\ Head(cs) = "#" THEN LStripHash(Tail(cs)) ELSE cs

\* cs[a:b]
Slice(cs, a, b) == SubSeq(cs, a + 1, IF b < Len(cs) THEN b ELSE Len(cs))

\* int(cs, 16): -1 stands for ValueError (an empty string, a character that is no
\* hexadecimal digit).
RECURSIVE IntBase16(_)
IntBase16(cs) ==
    IF cs = <<>> THEN -1
    ELSE LET d == HexDigit(cs[Len(cs)])
         IN IF d < 0 THEN -1
            ELSE IF Len(cs) = 1 THEN d
            ELSE LET hi == IntBase16(SubSeq(cs, 1, Len(cs) - 1))
                 IN IF hi < 0 THEN -1 ELSE 16 * hi + d

\* _hex_to_rgb: the three channels; a channel of -1 stands for the exception the
\* conversion raises (ValueError for a malformed string, AttributeError for a value
\* that is no string).
HexToRgb(v) ==
    IF v.t # "str" THEN <<-1, -1, -1>>
    ELSE LET cs == LStripHash(HexChars(v.s))
         IN <<IntBase16(Slice(cs, 0, 2)), IntBase16(Slice(cs, 2, 4)), IntBase16(Slice(cs, 4, 6))>>

HexRaises(v) == \E k \in 1..3 : HexToRgb(v)[k] < 0

\* ------------------------------------------------------------ random stream
\* random.seed(s)
RandomSeed(s) == s % RngMod

\* The state of the stream after one draw.
RngNext(r) == (13 * r + 11) % RngMod

\* random.random() in quarters: 0, 1, 2, 3 stand for 0, 1/4, 1/2, 3/4.
RandomUnit(r) == (r \div 4) % 4

\* random.uniform(a, b) == a + (b - a) * random()
Uniform(a, b, r) == a + ((b - a) * RandomUnit(r)) \div 4

\* random.choice of a list of four
Choice4(list, r) == list[RandomUnit(r) + 1]

\* random.randint(0, 255)
RandInt255(r) == (256 * RandomUnit(r)) \div 4

\* cos and sin of k quarter turns
Cos4(k) == CASE k % 4 = 0 -> 1 [] k % 4 = 2 -> -1 [] OTHER -> 0
Sin4(k) == CASE k % 4 = 1 -> 1 [] k % 4 = 3 -> -1 [] OTHER -> 0

\* Degrees (fixed-point) as quarter turns; the model draws angle_variation from
\* 0 and 360 degrees, for which the quotient is exact.
QuarterTurns(deg) == deg \div U(90)

\* A progress percentage as the exact fraction num / den, den > 0.
Pct(num, den) == [num |-> num, den |-> den]
PctLeq(p, q) == p.num * q.den <= q.num * p.den
PctEq(p, q) == p.num * q.den = q.num * p.den

\* ------------------------------------------------------------------- state
VARIABLES
    gen,     \* the running generate call: its position, locals and Scene
    rng,     \* the state of the process-wide random stream
    win,     \* the fields and widgets of MainWindow
    worker,  \* the thread started by _on_generate, running _generate_artwork
    after,   \* the callbacks scheduled with root.after(0, ...), oldest first
    obs,     \* what an observer of the generate call has seen (history)
    hist     \* what an observer of the window has seen (history)

vars == <<gen, rng, win, worker, after, obs, hist>>

\* ArtworkData(width, height, background_color) with empty primitive lists
ArtworkData(width, height, background_color) ==
    [width |-> width, height |-> height, background_color |-> background_color,
     paths |-> <<>>, circles |-> <<>>]

PathElement(points, color, width, closed) ==
    [points |-> points, color |-> color, width |-> width, closed |-> closed]

CircleElement(center, radius, color, fill, stroke_width) ==
    [center |-> center, radius |-> radius, color |-> color, fill |-> fill,
     stroke_width |-> stroke_width]

White == <<255, 255, 255>>
Black == <<0, 0, 0>>

NoParams == validate_parameters(RandomWalkParameters, <<>>)

IdleGen ==
    [pc |-> "idle", generator |-> "none", raw |-> <<>>, first |-> NoParams, width |-> 0, height |-> 0, sink |-> FALSE, params |-> NoParams,
     artwork |-> ArtworkData(0, 0, White), i |-> 0, step |-> 0, x |-> 0, y |-> 0,
     angle |-> 0, points |-> <<>>, color |-> Black]

\* ncb: progress callbacks that returned; abort_ncb: ncb when the cancellation flag
\* was set (-1: not set); since_abort: step points appended since then; cand: the
\* last candidate point; broke: the last step left the loop at the boundary;
\* started: a call was made;
\* fresh: the last step of the call ended with a callback that returned;
\* abort_fresh: fresh when the flag was set; percents: the percentages a
\* MathematicalPatterns call passed to its sink; rng0: the state of the random
\* stream when that call was made; last, prev: the percentage of the latest update
\* of the sink and of the one before; format, exported: the exporter that ran last
\* and the drawing operations it made, in order; scene, own: the Scene the latest
\* in-walk update passed and the Scene of the generator right after it; update: the latest update of a RandomWalk
\* call: in a walk ("step") or after one ("walk"), the index of the walk and the
\* numbers of paths and circles of the Scene passed.
NoObs ==
    [ncb |-> 0, abort_ncb |-> -1, since_abort |-> 0, cand |-> <<0, 0>>, broke |-> FALSE,
     started |-> FALSE, fresh |-> FALSE, abort_fresh |-> FALSE,
     percents |-> <<>>, rng0 |-> 0, last |-> Pct(0, 1), prev |-> Pct(0, 1),
     format |-> "none", exported |-> <<>>, scene |-> <<>>, own |-> <<>>,
     update |-> [kind |-> "none", walk |-> 0, paths |-> 0, circles |-> 0]]

\* None is the empty sequence, an object the sequence holding it.
NoneRef == <<>>
Ref(object) == <<object>>

\* MainWindow.__init__ and the initial states of the widgets; width_var and
\* height_var start at the smallest canvas of the model (800 x 600 in the source).
InitWin ==
    [width_var |-> 1, height_var |-> 1, current_generator_name |-> "Random Walk", is_generating |-> FALSE, abort_generation |-> FALSE, current_artwork |-> NoneRef,
     layer_history |-> <<>>, status_var |-> "Ready", layer_mode_var |-> FALSE,
     generate_btn |-> "normal", abort_btn |-> "disabled", save_png_btn |-> "disabled",
     save_svg_btn |-> "disabled", error_dialog |-> FALSE]

NoWorker == [pc |-> "none", previous_artwork |-> NoneRef]

\* The result an observer keeps of an earlier call, to compare a later one with;
\* drawn: other code drew from the stream since.
NoResult ==
    [set |-> FALSE, raw |-> <<>>, width |-> 0, height |-> 0,
     artwork |-> ArtworkData(0, 0, White), drawn |-> FALSE]

\* snap_artwork, snap_history: current_artwork and layer_history when Generate was
\* clicked; cleared: Clear Canvas was clicked during the generation; abort_requested:
\* Abort was clicked during it; outcome: how the generation ended once its handler
\* ran; partial: progress callbacks had returned when it ended by abort; passes:
\* the Scenes generate returned that current_artwork was made of, in the order of
\* the generations; base_passes: the same for the previous_artwork of the worker;
\* threads: the worker threads that have not ended; handlers: the completion and
\* error handlers that ran since Generate started the last one.
NoHist ==
    [snap_artwork |-> NoneRef, snap_history |-> <<>>, cleared |-> FALSE,
     abort_requested |-> FALSE, outcome |-> "none", partial |-> FALSE, ref |-> NoResult,
     passes |-> <<>>, base_passes |-> <<>>, threads |-> 0, handlers |-> 0]

\* ----------------------------------------------------- random-walk geometry
\* _get_start_position: <<x, y, state of the stream afterwards>>
StartPosition(W, H, mode, r) ==
    CASE mode = "center" -> <<W \div 2, H \div 2, r>>
      [] mode = "random" -> <<Uniform(0, W, r), Uniform(0, H, RngNext(r)), RngNext(RngNext(r))>>
      [] mode = "edges" ->
           LET edge == Choice4(<<"top", "bottom", "left", "right">>, r)
               r1 == RngNext(r)
           IN CASE edge = "top" -> <<Uniform(0, W, r1), 0, RngNext(r1)>>
                [] edge = "bottom" -> <<Uniform(0, W, r1), H, RngNext(r1)>>
                [] edge = "left" -> <<0, Uniform(0, H, r1), RngNext(r1)>>
                [] OTHER -> <<W, Uniform(0, H, r1), RngNext(r1)>>
      [] mode = "corners" ->
           LET corner == Choice4(<<(<<0, 0>>), (<<W, 0>>), (<<0, H>>), (<<W, H>>)>>, r)
           IN <<corner[1], corner[2], RngNext(r)>>
      [] OTHER -> <<W \div 2, H \div 2, r>>

\* A _handle_boundary whose 'stop' policy never stops the walk.
HandleBoundaryNeverStops(x, y, W, H, behavior) ==
    CASE behavior = "bounce" ->
           [x |-> IF x < 0 THEN -x ELSE IF x > W THEN 2 * W - x ELSE x,
            y |-> IF y < 0 THEN -y ELSE IF y > H THEN 2 * H - y ELSE y,
            should_continue |-> TRUE]
      [] behavior = "wrap" -> [x |-> x % W, y |-> y % H, should_continue |-> TRUE]
      [] OTHER -> [x |-> x, y |-> y, should_continue |-> TRUE]

\* _handle_boundary: [x, y, should_continue]
HandleBoundary(x, y, W, H, behavior) ==
    CASE behavior = "ignore" -> [x |-> x, y |-> y, should_continue |-> TRUE]
      [] behavior = "stop" ->
           [x |-> x, y |-> y, should_continue |-> ~(x < 0 \/ x > W \/ y < 0 \/ y > H)]
      [] behavior = "bounce" ->
           [x |-> IF x < 0 THEN -x ELSE IF x > W THEN 2 * W - x ELSE x,
            y |-> IF y < 0 THEN -y ELSE IF y > H THEN 2 * H - y ELSE y,
            should_continue |-> TRUE]
      [] behavior = "wrap" -> [x |-> x % W, y |-> y % H, should_continue |-> TRUE]
      [] OTHER -> [x |-> x, y |-> y, should_continue |-> TRUE]

\* colorsys.hsv_to_rgb(index / num_walks, 1, 1) scaled by 255 and truncated
Rainbow(index, num_walks) ==
    LET n == IF num_walks > 1 THEN num_walks ELSE 1
        k == IF num_walks > 1 THEN index ELSE 0
        sector == ((6 * k) \div n) % 6
        t == (255 * ((6 * k) % n)) \div n
        q == (255 * (n - ((6 * k) % n))) \div n
    IN CASE sector = 0 -> <<255, t, 0>>
         [] sector = 1 -> <<q, 255, 0>>
         [] sector = 2 -> <<0, 255, t>>
         [] sector = 3 -> <<0, q, 255>>
         [] sector = 4 -> <<t, 0, 255>>
         [] OTHER -> <<255, 0, q>>

\* _get_walk_color: <<colour, state of the stream afterwards>>
WalkColor(index, params, r) ==
    LET mode == params.color_mode.s
        num_walks == IntOf(params.num_walks)
    IN CASE mode = "monochrome" -> <<HexToRgb(params.base_color), r>>
         [] mode = "grayscale" ->
              LET value == IF num_walks = 1 THEN 0 ELSE (255 * index) \div (num_walks - 1)
              IN <<(<<value, value, value>>), r>>
         [] mode = "color" ->
              <<(<<RandInt255(r), RandInt255(RngNext(r)), RandInt255(RngNext(RngNext(r)))>>),
                RngNext(RngNext(RngNext(r)))>>
         [] mode = "rainbow" -> <<Rainbow(index, num_walks), r>>
         [] OTHER -> <<Black, r>>

\* update_interval = max(1, steps_per_walk // 50)
UpdateInterval(params) ==
    IF IntOf(params.steps_per_walk) \div 50 > 1 THEN IntOf(params.steps_per_walk) \div 50 ELSE 1

\* MainWindow._on_progress raises InterruptedError when abort was requested.
SinkRaises == win.abort_generation

\* ------------------------------------------------------- the layer-mode merge
\* A merge that would put the new Scene first.
MergedOverlayFirst(width, height, previous_artwork, new_artwork) ==
    [width |-> width, height |-> height,
     background_color |-> previous_artwork.background_color,
     paths |-> new_artwork.paths \o previous_artwork.paths,
     circles |-> new_artwork.circles \o previous_artwork.circles]

\* The Scene _generate_artwork builds of the previous and the new one.
MergedArtwork(width, height, previous_artwork, new_artwork) ==
    [width |-> width, height |-> height,
     background_color |-> previous_artwork.background_color,
     paths |-> previous_artwork.paths \o new_artwork.paths,
     circles |-> previous_artwork.circles \o new_artwork.circles]

\* A merge that would extend the lists of the previous Scene in place.
MergeInPlace(width, height, previous_artwork, new_artwork) ==
    LET merged == MergedArtwork(width, height, previous_artwork, new_artwork)
    IN [merged |-> merged,
        previous_artwork |-> [previous_artwork EXCEPT !.paths = merged.paths,
                                                      !.circles = merged.circles],
        new_artwork |-> new_artwork]

\* The merge and what it leaves of its operands: list + list builds a new list and
\* ArtworkData(...) a new Scene, so both operands are as they were.
Merge(width, height, previous_artwork, new_artwork) ==
    [merged |-> MergedArtwork(width, height, previous_artwork, new_artwork),
     previous_artwork |-> previous_artwork,
     new_artwork |-> new_artwork]

\* layer_progress_callback(new_artwork, progress) of a worker w in layer mode, and
\* _on_progress of one that is not: what the update leaves of the previous Scene
\* and of the Scene generate passed.
LayerProgress(w, new_artwork) ==
    IF w.previous_artwork = NoneRef
    THEN [previous_artwork |-> NoneRef, new_artwork |-> new_artwork]
    ELSE LET m == Merge(new_artwork.width, new_artwork.height, w.previous_artwork[1],
                        new_artwork)
         IN [previous_artwork |-> Ref(m.previous_artwork), new_artwork |-> m.new_artwork]

\* --------------------------------------------- RandomWalkGenerator.generate
\* The steps of a call change gen, rng and obs and nothing of the window; an update
\* of the sink runs the callback of the worker.

\* A generate that never seeds the stream.
SeedNever(params, r) == r

\* random.seed(params['seed']) when a seed is specified
SeedIfSpecified(params, r) ==
    IF params.seed.n > 0 THEN RandomSeed(IntOf(params.seed)) ELSE r

\* The stream after one step of a walk whose update of the sink would draw from it.
StepDrawsForUpdate(reports, r) == IF reports THEN RngNext(RngNext(r)) ELSE RngNext(r)

\* The stream after one step of a walk: one draw, for the angle change, whether or
\* not the step updates the sink.
StepDraws(reports, r) == RngNext(r)

\* total_progress of _generate_walk, restarting with every walk.
WalkProgressPerWalk(walk_index, step, params) ==
    Pct(100 * step, IntOf(params.steps_per_walk))

\* total_progress of _generate_walk: (walk_index / N + (step / steps) / N) * 100
WalkProgress(walk_index, step, params) ==
    Pct(100 * (walk_index * IntOf(params.steps_per_walk) + step),
        IntOf(params.num_walks) * IntOf(params.steps_per_walk))

\* progress of generate after walk i: ((i + 1) / N) * 100
EndProgress(i, params) == Pct(100 * (i + 1), IntOf(params.num_walks))

\* A marker at the first point of the walk.
EndpointNodesAtStart(points, color, params) ==
    IF params.add_nodes.n # 0 /\ Len(points) > 0
    THEN <<CircleElement(points[1], params.line_width.n * 2, color, TRUE, U(1))>>
    ELSE <<>>

\* The circles generate appends after a walk: a marker at its last point if
\* add_nodes is set.
EndpointNodes(points, color, params) ==
    IF params.add_nodes.n # 0 /\ Len(points) > 0
    THEN <<CircleElement(points[Len(points)], params.line_width.n * 2, color, TRUE, U(1))>>
    ELSE <<>>

\* A temporary Scene made by appending the path to the Scene of the generator.
TempArtworkInPlace(artwork, points, color, params) ==
    LET temp_path == PathElement(points, color, params.line_width.n, FALSE)
        grown == [artwork EXCEPT !.paths = Append(@, temp_path)]
    IN [temp_artwork |-> grown, artwork |-> grown, points |-> points]

\* The temporary Scene of an in-walk update and what building it leaves of the
\* Scene of the generator and of the points of the walk: points.copy(),
\* artwork.paths + [temp_path] and artwork.circles.copy() build new lists.
TempArtwork(artwork, points, color, params) ==
    LET temp_path == PathElement(points, color, params.line_width.n, FALSE)
    IN [temp_artwork |-> [width |-> artwork.width, height |-> artwork.height,
                          background_color |-> artwork.background_color,
                          paths |-> artwork.paths \o <<temp_path>>,
                          circles |-> artwork.circles],
        artwork |-> artwork, points |-> points]

\* progress_callback(scene, percent) of a call with a sink: TRUE when it raises.
CallbackRaises == gen.sink /\ SinkRaises

\* generate, up to the loop over the walks: validate, seed, create the Scene.
GenerateCall(width, height, raw, sink) ==
    /\ gen.pc = "idle"
    /\ obs' = [NoObs EXCEPT !.started = TRUE]
    /\ IF ValidateRaises(RandomWalkParameters, raw)
       THEN /\ gen' = [IdleGen EXCEPT !.pc = "raised", !.width = width, !.height = height,
                                      !.sink = sink, !.generator = "Random Walk",
                                      !.raw = raw]
            /\ rng' = rng
       ELSE \E params \in {validate_parameters(RandomWalkParameters, raw)} :
               /\ rng' = SeedIfSpecified(params, rng)
               /\ gen' = [IdleGen EXCEPT
                            !.pc = IF HexRaises(params.background_color) THEN "raised"
                                   ELSE IF IntOf(params.num_walks) > 0 THEN "walk_start"
                                   ELSE "loop_end",
                            !.width = width, !.height = height, !.sink = sink,
                            !.generator = "Random Walk", !.raw = raw, !.params = params,
                            !.artwork = ArtworkData(width, height,
                                                    HexToRgb(params.background_color))]

\* One walk begins: its colour, its starting point and its first heading.
WalkStart ==
    /\ gen.pc = "walk_start"
    /\ UNCHANGED <<win, worker, after, hist>>
    /\ LET params == gen.params
           wc == WalkColor(gen.i, params, rng)
           sp == StartPosition(U(gen.width), U(gen.height), params.start_position.s, wc[2])
           current_angle == Uniform(0, 4, sp[3])
       IN IF params.color_mode.s = "monochrome" /\ HexRaises(params.base_color)
          THEN /\ gen' = [gen EXCEPT !.pc = "raised"]
               /\ rng' = rng
               /\ obs' = obs
          ELSE /\ gen' = [gen EXCEPT
                            !.pc = IF IntOf(params.steps_per_walk) > 0 THEN "step" ELSE "walk_end",
                            !.color = wc[1], !.x = sp[1], !.y = sp[2],
                            !.angle = current_angle % 4,
                            !.points = <<(<<sp[1], sp[2]>>)>>, !.step = 0]
               /\ rng' = RngNext(sp[3])
               /\ obs' = [obs EXCEPT !.broke = FALSE, !.cand = <<sp[1], sp[2]>>,
                                      !.fresh = FALSE]

\* One iteration of the loop over the steps of _generate_walk.
WalkStep ==
    /\ gen.pc = "step"
    /\ UNCHANGED <<win, after, hist>>
    /\ LET params == gen.params
           q == QuarterTurns(params.angle_variation.n)
           angle_change == Uniform(-(q \div 2), q \div 2, rng)
           current_angle == (gen.angle + angle_change) % 4
           new_x == gen.x + Cos4(current_angle) * params.step_size.n
           new_y == gen.y + Sin4(current_angle) * params.step_size.n
           hb == HandleBoundary(new_x, new_y, U(gen.width), U(gen.height),
                                params.boundary_behavior.s)
           reports == gen.sink /\ gen.step % UpdateInterval(params) = 0
           last == gen.step + 1 >= IntOf(params.steps_per_walk)
           built == TempArtwork(gen.artwork, Append(gen.points, <<hb.x, hb.y>>), gen.color,
                                params)
           temp_artwork == built.temp_artwork
       IN /\ rng' = StepDraws(reports /\ hb.should_continue, rng)
          /\ worker' = IF reports /\ hb.should_continue
                       THEN [worker EXCEPT !.previous_artwork =
                                LayerProgress(worker, temp_artwork).previous_artwork]
                       ELSE worker
          /\ IF ~hb.should_continue
             THEN /\ gen' = [gen EXCEPT !.pc = "walk_end", !.angle = current_angle]
                  /\ obs' = [obs EXCEPT !.broke = TRUE, !.cand = <<new_x, new_y>>,
                                         !.fresh = FALSE]
             ELSE /\ gen' = [gen EXCEPT
                               !.pc = IF reports /\ CallbackRaises THEN "aborted"
                                      ELSE IF last THEN "walk_end" ELSE "step",
                               !.angle = current_angle, !.x = hb.x, !.y = hb.y,
                               !.points = IF reports THEN built.points
                                          ELSE Append(gen.points, <<hb.x, hb.y>>),
                               !.artwork = IF reports THEN built.artwork ELSE @,
                               !.step = gen.step + 1]
                  /\ obs' = [obs EXCEPT
                               !.cand = <<new_x, new_y>>,
                               !.since_abort = @ + (IF win.abort_generation THEN 1 ELSE 0),
                               !.ncb = @ + (IF reports /\ ~CallbackRaises THEN 1 ELSE 0),
                               !.fresh = reports /\ ~CallbackRaises,
                               !.last = IF reports THEN WalkProgress(gen.i, gen.step, params)
                                        ELSE @,
                               !.prev = IF reports THEN obs.last ELSE @,
                               !.scene = IF reports THEN Ref(temp_artwork) ELSE @,
                               !.own = IF reports THEN Ref(built.artwork) ELSE @,
                               !.update = IF reports
                                          THEN [kind |-> "step", walk |-> gen.i,
                                                paths |-> Len(gen.artwork.paths) + 1,
                                                circles |-> Len(gen.artwork.circles)]
                                          ELSE @]

\* The walk is over: generate appends its path and its endpoint node and reports
\* the progress of the call.
WalkEnd ==
    /\ gen.pc = "walk_end"
    /\ UNCHANGED <<win, after, hist>>
    /\ LET params == gen.params
           path == PathElement(gen.points, gen.color, params.line_width.n, FALSE)
           nodes == EndpointNodes(gen.points, gen.color, params)
           more == gen.i + 1 < IntOf(params.num_walks)
           artwork == [gen.artwork EXCEPT !.paths = Append(@, path), !.circles = @ \o nodes]
           update == IF gen.sink THEN LayerProgress(worker, artwork)
                     ELSE [previous_artwork |-> worker.previous_artwork,
                           new_artwork |-> artwork]
       IN /\ gen' = [gen EXCEPT
                       !.pc = IF CallbackRaises THEN "aborted"
                              ELSE IF more THEN "walk_start" ELSE "loop_end",
                       !.artwork = update.new_artwork,
                       !.i = gen.i + 1, !.points = <<>>]
          /\ worker' = [worker EXCEPT !.previous_artwork = update.previous_artwork]
          /\ obs' = [obs EXCEPT !.ncb = @ + (IF gen.sink /\ ~CallbackRaises THEN 1 ELSE 0),
                                 !.fresh = gen.sink /\ ~CallbackRaises,
                                 !.last = IF gen.sink THEN EndProgress(gen.i, params) ELSE @,
                                 !.prev = IF gen.sink THEN obs.last ELSE @,
                                 !.scene = NoneRef, !.own = NoneRef,
                                 !.update = IF gen.sink
                                            THEN [kind |-> "walk", walk |-> gen.i,
                                                  paths |-> Len(gen.artwork.paths) + 1,
                                                  circles |-> Len(gen.artwork.circles)
                                                              + Len(nodes)]
                                            ELSE @]
          /\ rng' = rng

\* The loop over the walks is over: return artwork.
GenerateReturn ==
    /\ gen.pc = "loop_end"
    /\ gen' = [gen EXCEPT !.pc = "returned"]
    /\ UNCHANGED <<rng, obs, win, worker, after, hist>>

Ended == gen.pc \in {"returned", "aborted", "raised"}

\* ------------------------------------------------------ callers of generate
RawCall(num_walks, steps, step_size, variation, boundary, start, nodes, seed, mode) ==
    [num_walks |-> Num(U(num_walks)), steps_per_walk |-> Num(U(steps)),
     step_size |-> Num(step_size), angle_variation |-> Num(U(variation)),
     boundary_behavior |-> Str(boundary), start_position |-> Str(start),
     add_nodes |-> Bool(nodes), seed |-> Num(U(seed)), color_mode |-> Str(mode)]

CanvasSizes == 1..MaxDim
\* <<width, height>> of the landscape and square canvases
CanvasShapes == {shape \in CanvasSizes \X CanvasSizes : shape[2] <= shape[1]}
StepSizes == {10, 20}

shellVars == <<worker, after, hist>>

\* The cancellation flag is set while the call runs (the effect of
\* MainWindow._on_abort on the flag the sink reads).
SetAbortFlag ==
    /\ ~Ended /\ gen.pc # "idle"
    /\ ~win.abort_generation
    /\ win' = [win EXCEPT !.abort_generation = TRUE]
    /\ obs' = [obs EXCEPT !.abort_ncb = obs.ncb, !.abort_fresh = obs.fresh]
    /\ UNCHANGED <<gen, rng, shellVars>>

\* The caller has the outcome of the call and clears the flag
\* (_on_generation_complete, _on_generation_error).
CallReturn ==
    /\ Ended
    /\ gen' = IdleGen
    /\ win' = [win EXCEPT !.abort_generation = FALSE]
    /\ obs' = NoObs
    /\ UNCHANGED <<rng, shellVars>>

\* Some other code of the process draws from the random stream between two calls.
OtherDraw ==
    /\ gen.pc = "idle"
    /\ rng' = RngNext(rng)
    /\ hist' = [hist EXCEPT !.ref.drawn = hist.ref.set]
    /\ UNCHANGED <<gen, win, obs, worker, after>>

\* -- SpecWalk: unseeded walks over every boundary and start-position policy
WalkCalls ==
    {RawCall(n, 10, ss, 360, bb, sp, TRUE, 0, "monochrome") :
        n \in {1, MaxWalks}, ss \in StepSizes, bb \in BoundaryBehaviors, sp \in StartPositions}

WalkCall ==
    /\ \E shape \in CanvasShapes, raw \in WalkCalls :
          GenerateCall(shape[1], shape[2], raw, TRUE)
    /\ UNCHANGED <<win, shellVars>>

WalkInit ==
    /\ gen = IdleGen
    /\ rng \in 0..(RngMod - 1)
    /\ win = InitWin
    /\ worker = NoWorker
    /\ after = <<>>
    /\ obs = NoObs
    /\ hist = NoHist

WalkNext ==
    \/ WalkCall
    \/ WalkStart
    \/ WalkStep
    \/ WalkEnd
    \/ GenerateReturn
    \/ CallReturn

SpecWalk == WalkInit /\ [][WalkNext]_vars

\* -- SpecAbort: calls whose sink raises once the cancellation flag is set
AbortCalls ==
    {RawCall(n, 10, ss, 360, bb, sp, FALSE, sd, "monochrome") :
        n \in 1..MaxWalks, ss \in StepSizes, bb \in BoundaryBehaviors,
        sp \in {"center", "corners"}, sd \in 0..MaxSeed}
    \cup
    {RawCall(1, 100, ss, 360, bb, "center", FALSE, sd, "monochrome") :
        ss \in StepSizes, bb \in BoundaryBehaviors, sd \in 1..MaxSeed}

AbortCall ==
    /\ \E raw \in AbortCalls : GenerateCall(1, 1, raw, TRUE)
    /\ UNCHANGED <<win, shellVars>>

AbortNext ==
    \/ AbortCall
    \/ WalkStart
    \/ WalkStep
    \/ WalkEnd
    \/ GenerateReturn
    \/ SetAbortFlag
    \/ CallReturn

SpecAbort == WalkInit /\ [][AbortNext]_vars

\* -- SpecValidate: raw parameter maps given to validate_parameters and to generate
\* The stream of a process that seeded it.
SeededInit ==
    /\ gen = IdleGen
    /\ rng = RandomSeed(0)
    /\ win = InitWin
    /\ worker = NoWorker
    /\ after = <<>>
    /\ obs = NoObs
    /\ hist = NoHist

\* 78 / 20 is 3.9.
IntRaw == {None, NaN, Str("abc"), Str("12"), Num(U(-5)), Num(78)}
FloatRaw == {None, Str("abc"), Num(U(-5)), Num(U(1000))}
FloatRawNaN == FloatRaw \cup {NaN, Str("nan"), Str("12")}
ChoiceRaw == {None, Str("grid"), Num(U(3))}
ColorRaw == {None, Str("red"), Str("#FFF"), Str("#2E86AB")}
BoolRaw == {None, Str("abc"), Num(0), Bool(TRUE)}

\* The raw values the model gives the parameter name; with_nan: NaN and numeric
\* strings among the float values (coordinates of the model are numbers, so the
\* generate calls of the model get none).
RawValues(name, with_nan) ==
    LET type == RandomWalkParameters[name].type
    IN CASE type = "int" -> IntRaw
         [] type = "float" -> IF with_nan THEN FloatRawNaN ELSE FloatRaw
         [] type = "choice" -> ChoiceRaw
         [] type = "color" -> ColorRaw
         [] OTHER -> BoolRaw

\* The raw maps of at most MaxRawKeys entries.
RawMaps(with_nan) ==
    UNION {{f \in [ks -> UNION {RawValues(k, with_nan) : k \in ks}] :
               \A k \in ks : f[k] \in RawValues(k, with_nan)} :
           ks \in {ks \in SUBSET ParamNames : Cardinality(ks) \in 1..MaxRawKeys}}

\* dict(base, **raw)
Override(base, raw) ==
    [name \in DOMAIN base \cup DOMAIN raw |->
        IF name \in DOMAIN raw THEN raw[name] ELSE base[name]]

\* A well-formed call of one short walk.
BaseCall == RawCall(1, 10, 10, 360, "stop", "center", FALSE, 1, "monochrome")

\* validate_parameters(raw) on its own.
ValidateCall ==
    /\ gen.pc = "idle"
    /\ \E raw \in RawMaps(TRUE) \cup {<<>>} :
          gen' = IF ValidateRaises(RandomWalkParameters, raw)
                 THEN [IdleGen EXCEPT !.pc = "raised", !.generator = "Random Walk",
                                      !.raw = raw]
                 ELSE [IdleGen EXCEPT !.pc = "validated", !.generator = "Random Walk",
                                      !.raw = raw,
                                      !.first = validate_parameters(RandomWalkParameters, raw),
                                      !.params = validate_parameters(RandomWalkParameters, raw)]
    /\ obs' = [NoObs EXCEPT !.started = TRUE]
    /\ UNCHANGED <<rng, win, shellVars>>

\* validate_parameters applied to its own output.
Revalidate ==
    /\ gen.pc = "validated"
    /\ gen' = IF ValidateRaises(RandomWalkParameters, gen.params)
              THEN [gen EXCEPT !.pc = "raised"]
              ELSE [gen EXCEPT !.pc = "revalidated",
                               !.params = validate_parameters(RandomWalkParameters, gen.params)]
    /\ UNCHANGED <<rng, win, obs, shellVars>>

ValidateReturn ==
    /\ gen.pc = "revalidated"
    /\ gen' = IdleGen
    /\ obs' = NoObs
    /\ UNCHANGED <<rng, win, shellVars>>

\* generate(1, 1, raw) for a well-formed call with some entries replaced.
RawGenerateCall ==
    /\ \E raw \in RawMaps(FALSE) : GenerateCall(1, 1, Override(BaseCall, raw), TRUE)
    /\ UNCHANGED <<win, shellVars>>

ValidateNext ==
    \/ ValidateCall
    \/ Revalidate
    \/ ValidateReturn
    \/ RawGenerateCall
    \/ WalkStart
    \/ WalkStep
    \/ WalkEnd
    \/ GenerateReturn
    \/ CallReturn

SpecValidate == SeededInit /\ [][ValidateNext]_vars

\* -- SpecMath: MathematicalPatternsGenerator.generate with and without a sink
PatternTypes == {"spiral", "wave", "lissajous", "fractal_tree", "circle_pack"}

\* _get_color_for_element for a black or white base colour under a colour scheme
\* that only turns the hue: the base colour itself.
GetColorForElement(index, total, color, scheme) ==
    CASE HexToRgb(color) \in {Black, White}
         /\ scheme \in {"gradient", "complementary", "analogous", "triadic"} -> HexToRgb(color)

\* 1000 * sin of k/24 of a turn, k = 0..23, rounded to the unit.
SinTable ==
    <<0, 259, 500, 707, 866, 966, 1000, 966, 866, 707, 500, 259,
      0, -259, -500, -707, -866, -966, -1000, -966, -866, -707, -500, -259>>

\* len * sin and len * cos of an angle given in 24ths of a turn
TimesSin(len, k) == (len * SinTable[(k % 24) + 1]) \div 1000
TimesCos(len, k) == TimesSin(len, k + 6)

\* An angle in radians (fixed-point) in 24ths of a turn, rounded down.
RadTo24(rad) == (rad * 2400) \div (U(1) * 628)

RECURSIVE Flatten(_)
Flatten(seqs) == IF seqs = <<>> THEN <<>> ELSE Head(seqs) \o Flatten(Tail(seqs))

\* The locals generate extracts from the raw map, which it does not validate.
MathParams(raw) ==
    [pattern_type |-> DictGet(raw, "pattern_type", Str("spiral")),
     density |-> IntOf(DictGet(raw, "density", Num(U(100)))),
     complexity |-> DictGet(raw, "complexity", Num(30)).n,
     symmetry |-> IntOf(DictGet(raw, "symmetry", Num(U(1)))),
     line_width |-> DictGet(raw, "line_width", Num(U(2))).n,
     color |-> DictGet(raw, "color", Str("#2E86AB")),
     color_scheme |-> DictGet(raw, "color_scheme", Str("gradient")).s,
     organic_factor |-> DictGet(raw, "organic_factor", Num(0)).n,
     completeness |-> DictGet(raw, "completeness", Num(U(1))).n,
     bg_color |-> DictGet(raw, "background_color", Str("#FFFFFF"))]

\* int(density * completeness)
ActualDensity(p) == (p.density * p.completeness) \div U(1)

\* The percentages arm sym of a spiral, wave or Lissajous pattern passes to the
\* sink: one for every tenth point.
ArmPercents(sink, sym, symmetry, actual_density) ==
    IF ~sink THEN <<>>
    ELSE [k \in 1..((actual_density + 9) \div 10) |->
             Pct(100 * (sym * actual_density + 10 * (k - 1)), symmetry * actual_density)]

\* What a pattern adds to the Scene, what it passes to the sink and the state it
\* leaves the random stream in.
Drawn(paths, circles, percents, r) ==
    [paths |-> paths, circles |-> circles, percents |-> percents, rng |-> r]

\* The points of arm sym of _generate_spiral with organic_factor 0.
SpiralArm(width, height, density, complexity, symmetry, completeness, sym) ==
    LET cx == U(width) \div 2
        cy == U(height) \div 2
        max_radius == ((IF width < height THEN U(width) ELSE U(height)) * 2) \div 5
        actual_density == (density * completeness) \div U(1)
    IN [k \in 1..actual_density |->
           LET i == k - 1
               angle == (24 * i * complexity) \div (U(1) * density) + (24 * sym) \div symmetry
               radius == (i * max_radius) \div density
           IN <<cx + TimesCos(radius, angle), cy + TimesSin(radius, angle)>>]

\* _generate_spiral with organic_factor 0
GenerateSpiral(width, height, p, sink, r) ==
    LET arm(sym) == SpiralArm(width, height, p.density, p.complexity, p.symmetry,
                              p.completeness, sym)
    IN Drawn(IF ActualDensity(p) > 1
             THEN [k \in 1..p.symmetry |->
                      PathElement(arm(k - 1),
                                  GetColorForElement(k - 1, p.symmetry, p.color, p.color_scheme),
                                  p.line_width, FALSE)]
             ELSE <<>>,
             <<>>,
             Flatten([k \in 1..p.symmetry |->
                         ArmPercents(sink, k - 1, p.symmetry, ActualDensity(p))]),
             r)

\* The sum over freq = 1..n of amplitude * sin(2 * pi * freq * t + phase) at point i
\* of wave wave_idx.
RECURSIVE WaveSum(_, _, _, _, _)
WaveSum(freq, height, p, wave_idx, i) ==
    IF freq = 0 THEN 0
    ELSE LET amplitude == (U(height) * 3) \div (10 * (p.symmetry + 1) * freq)
             phase == RadTo24(U(wave_idx))
         IN WaveSum(freq - 1, height, p, wave_idx, i)
            + TimesSin(amplitude, (24 * freq * i) \div p.density + phase)

\* _generate_wave with organic_factor 0
GenerateWave(width, height, p, sink, r) ==
    LET num_waves == p.symmetry
        points(wave_idx) ==
            LET y_offset == (U(height) * (wave_idx + 1)) \div (num_waves + 1)
            IN [k \in 1..ActualDensity(p) |->
                   <<((k - 1) * U(width)) \div p.density,
                     y_offset + WaveSum(p.complexity \div U(1), height, p, wave_idx, k - 1)>>]
    IN Drawn(IF ActualDensity(p) > 1
             THEN [k \in 1..num_waves |->
                      PathElement(points(k - 1),
                                  GetColorForElement(k - 1, num_waves, p.color, p.color_scheme),
                                  p.line_width, FALSE)]
             ELSE <<>>,
             <<>>,
             Flatten([k \in 1..num_waves |->
                         ArmPercents(sink, k - 1, num_waves, ActualDensity(p))]),
             r)

\* The points i.. of one Lissajous curve, appended to those of acc, and the stream
\* after them; with organic_factor > 0 every point draws its jitter in x and in y.
RECURSIVE LissajousPoints(_, _, _, _, _, _, _, _)
LissajousPoints(i, width, height, p, a, b, delta, acc) ==
    IF i >= ActualDensity(p) THEN acc
    ELSE LET x == U(width) \div 2
                  + TimesSin((U(width) * 2) \div 5, (24 * a * i) \div (U(1) * p.density) + delta)
             y == U(height) \div 2
                  + TimesSin((U(height) * 2) \div 5, (24 * b * i) \div (U(1) * p.density))
             jitter == 5 * p.organic_factor
             organic == p.organic_factor > 0
             jx == IF organic THEN Uniform(-jitter, jitter, acc.rng) ELSE 0
             r1 == IF organic THEN RngNext(acc.rng) ELSE acc.rng
             jy == IF organic THEN Uniform(-jitter, jitter, r1) ELSE 0
             r2 == IF organic THEN RngNext(r1) ELSE r1
         IN CHOOSE done \in
                {LissajousPoints(i + 1, width, height, p, a, b, delta, next) :
                    next \in {[points |-> Append(acc.points, <<x + jx, y + jy>>),
                               rng |-> r2]}} : TRUE

\* The path _generate_lissajous appends for curve sym, as it was when the curves
\* were closed.
LissajousPathClosed(points, sym, p) ==
    PathElement(points, GetColorForElement(sym, p.symmetry, p.color, p.color_scheme),
                p.line_width, TRUE)

\* The path _generate_lissajous appends for curve sym
LissajousPath(points, sym, p) ==
    PathElement(points, GetColorForElement(sym, p.symmetry, p.color, p.color_scheme),
                p.line_width, FALSE)

\* The curves sym.. of _generate_lissajous, appended to the paths of acc
RECURSIVE LissajousArms(_, _, _, _, _)
LissajousArms(sym, width, height, p, acc) ==
    IF sym >= p.symmetry THEN acc
    ELSE LET organic == p.organic_factor > 0
             vary(s) == (Uniform(-2, 2, s) * p.organic_factor) \div U(1)
             r1 == IF organic THEN RngNext(acc.rng) ELSE acc.rng
             r2 == IF organic THEN RngNext(r1) ELSE r1
             r3 == IF organic THEN RngNext(r2) ELSE r2
         IN CHOOSE done \in
                {LissajousArms(sym + 1, width, height, p,
                               [paths |-> IF Len(curve.points) > 1
                                          THEN Append(acc.paths, LissajousPath(curve.points, sym, p))
                                          ELSE acc.paths,
                                rng |-> curve.rng]) :
                    curve \in {LissajousPoints(0, width, height, p, a, b, delta,
                                               [points |-> <<>>, rng |-> r3]) :
                                  a \in {U(1) + 10 * sym + (IF organic THEN vary(acc.rng) ELSE 0)},
                                  b \in {p.complexity + (IF organic THEN vary(r1) ELSE 0)},
                                  delta \in {3 * sym
                                             + (IF organic THEN RadTo24(vary(r2)) ELSE 0)}}} : TRUE

\* _generate_lissajous
GenerateLissajous(width, height, p, sink, r) ==
    CHOOSE drawn \in
        {Drawn(arms.paths, <<>>,
               Flatten([k \in 1..p.symmetry |->
                           ArmPercents(sink, k - 1, p.symmetry, ActualDensity(p))]),
               arms.rng) :
            arms \in {LissajousArms(0, width, height, p, [paths |-> <<>>, rng |-> r])}} : TRUE

\* A draw_branch that stops at short branches only.
BranchStopsOnLengthOnly(call, max_depth) == call.length < U(2)

\* if depth > max_depth or length < 2: return
BranchStops(call, max_depth) == call.depth > max_depth \/ call.length < U(2)

\* draw_branch of _generate_fractal_tree with organic_factor 0: acc holds the paths
\* of the Scene, the percentages passed to the sink, the random stream and
\* branches_drawn, before the call and, as the value, after it.
RECURSIVE DrawBranch(_, _, _, _, _, _)
DrawBranch(call, acc, p, sink, sym, max_depth) ==
    IF BranchStops(call, max_depth) THEN acc
    ELSE IF 5 * RandomUnit(acc.rng) > p.completeness THEN [acc EXCEPT !.rng = RngNext(@)]
    ELSE LET end_x == call.x + TimesCos(call.length, call.angle)
             end_y == call.y + TimesSin(call.length, call.angle)
             branch == PathElement(<<<<call.x, call.y>>, <<end_x, end_y>>>>,
                           GetColorForElement(call.depth, max_depth + 1,
                                              p.color, p.color_scheme),
                           (p.line_width * (max_depth + 1 - call.depth)) \div (max_depth + 1),
                           FALSE)
             branches_drawn == acc.branches_drawn + 1
             progress == Pct(100 * sym + branches_drawn, p.symmetry)
             reported == IF PctLeq(progress, Pct(99, 1)) THEN progress ELSE Pct(99, 1)
             child(i) == [x |-> end_x, y |-> end_y, angle |-> call.angle + 2 * i - 1,
                          length |-> (call.length * 7) \div 10, depth |-> call.depth + 1]
             drawn == [acc EXCEPT
                         !.rng = RngNext(@),
                         !.paths = Append(@, branch),
                         !.branches_drawn = branches_drawn,
                         !.percents = IF sink /\ branches_drawn % 5 = 0
                                      THEN Append(@, reported) ELSE @]
         IN CHOOSE done \in
                {DrawBranch(right, left_done, p, sink, sym, max_depth) :
                    right \in {child(1)},
                    left_done \in {DrawBranch(left, own, p, sink, sym, max_depth) :
                                      left \in {child(0)}, own \in {drawn}}} : TRUE

\* The trees sym.. of _generate_fractal_tree
RECURSIVE FractalTrees(_, _, _, _, _, _)
FractalTrees(sym, width, height, p, sink, acc) ==
    IF sym >= p.symmetry THEN acc
    ELSE LET by3 == (p.complexity * 3) \div U(1)
             max_depth == IF by3 < 12 THEN by3 ELSE 12
             smaller == IF width < height THEN U(width) ELSE U(height)
             start == [x |-> U(width) \div 2, y |-> (U(height) * 4) \div 5,
                       angle |-> (24 * sym) \div p.symmetry - 6,
                       length |-> (smaller * 3) \div 20, depth |-> 0]
         IN CHOOSE done \in
                {FractalTrees(sym + 1, width, height, p, sink, tree) :
                    tree \in {DrawBranch(trunk, fresh, p, sink, sym, max_depth) :
                                 trunk \in {start},
                                 fresh \in {[acc EXCEPT !.branches_drawn = 0]}}} : TRUE

\* _generate_fractal_tree with organic_factor 0
GenerateFractalTree(width, height, p, sink, r) ==
    CHOOSE drawn \in
        {Drawn(done.paths, <<>>, done.percents, done.rng) :
            done \in {FractalTrees(0, width, height, p, sink,
                                   [paths |-> <<>>, percents |-> <<>>, rng |-> r,
                                    branches_drawn |-> 0])}} : TRUE

\* math.sqrt of dx ** 2 + dy ** 2, rounded down to the fixed-point unit
Dist(dx, dy) ==
    LET abs(v) == IF v < 0 THEN -v ELSE v
        d2 == dx * dx + dy * dy
    IN CHOOSE s \in 0..(abs(dx) + abs(dy)) : s * s <= d2 /\ d2 < (s + 1) * (s + 1)

\* overlap_tolerance of _generate_circle_pack
OverlapTolerance(line_width, organic_factor) ==
    (line_width * (2 * U(1) - organic_factor)) \div (2 * U(1))

\* The overlap loop of one attempt over the circles placed so far, from the k-th:
\* the radius it ends with and whether the attempt is still valid.
RECURSIVE ShrinkToFit(_, _, _, _, _, _, _)
ShrinkToFit(k, circles, x, y, radius, min_radius, tolerance) ==
    IF k > Len(circles) THEN [radius |-> radius, valid |-> TRUE]
    ELSE LET c == circles[k]
             dist == Dist(x - c.x, y - c.y)
             smaller == IF dist - c.radius - tolerance > min_radius
                        THEN dist - c.radius - tolerance ELSE min_radius
         IN IF dist < radius + c.radius + tolerance
            THEN IF smaller < min_radius
                 THEN [radius |-> smaller, valid |-> FALSE]
                 ELSE ShrinkToFit(k + 1, circles, x, y, smaller, min_radius, tolerance)
            ELSE ShrinkToFit(k + 1, circles, x, y, radius, min_radius, tolerance)

\* The attempts attempt.. to place one circle (organic_factor 0): the circle placed,
\* if any, and the stream afterwards.
RECURSIVE PlaceCircle(_, _, _, _, _, _)
PlaceCircle(attempt, circles, width, height, p, r) ==
    IF attempt >= 50 THEN [placed |-> FALSE, rng |-> r]
    ELSE LET smaller == IF width < height THEN U(width) ELSE U(height)
             max_radius == smaller \div 10
             min_radius == max_radius \div 10
             x == Uniform(0, U(width), r)
             y == Uniform(0, U(height), RngNext(r))
             r2 == RngNext(RngNext(r))
             radius == (max_radius * 4 * U(1)) \div (4 * U(1) + p.complexity * RandomUnit(r2))
             fit == ShrinkToFit(1, circles, x, y, radius, min_radius,
                                OverlapTolerance(p.line_width, p.organic_factor))
         IN IF fit.valid /\ fit.radius >= min_radius
            THEN [placed |-> TRUE, rng |-> RngNext(r2),
                  circle |-> [x |-> x, y |-> y, radius |-> fit.radius]]
            ELSE PlaceCircle(attempt + 1, circles, width, height, p, RngNext(r2))

\* The placement loop of _generate_circle_pack from circle i
RECURSIVE PackCircles(_, _, _, _, _, _)
PackCircles(i, acc, width, height, p, sink) ==
    IF i >= ActualDensity(p) THEN acc
    ELSE LET next(try) ==
                 [circles |-> IF try.placed THEN Append(acc.circles, try.circle)
                              ELSE acc.circles,
                  percents |-> IF sink /\ i % 5 = 0
                               THEN Append(acc.percents, Pct(100 * i, ActualDensity(p)))
                               ELSE acc.percents,
                  rng |-> try.rng]
         IN CHOOSE done \in
                {IF Len(tried.circles) > Len(acc.circles)
                 THEN PackCircles(i + 1, tried, width, height, p, sink) ELSE tried :
                    tried \in {next(try) :
                                  try \in {PlaceCircle(0, acc.circles, width, height, p,
                                                       acc.rng)}}} : TRUE

\* _generate_circle_pack with organic_factor 0: the circles placed, then one copy of
\* each, turned about the centre of the canvas, for every sym.
GenerateCirclePack(width, height, p, sink, r) ==
    LET copy(circles, sym, idx) ==
            LET c == circles[idx + 1]
                angle_offset == (24 * sym) \div p.symmetry
                dx == c.x - U(width) \div 2
                dy == c.y - U(height) \div 2
            IN CircleElement(<<U(width) \div 2 + TimesCos(dx, angle_offset)
                                   - TimesSin(dy, angle_offset),
                               U(height) \div 2 + TimesSin(dx, angle_offset)
                                   + TimesCos(dy, angle_offset)>>,
                             c.radius,
                             GetColorForElement(idx, Len(circles), p.color, p.color_scheme),
                             FALSE, p.line_width)
    IN CHOOSE drawn \in
           {Drawn(<<>>,
                  [k \in 1..(p.symmetry * Len(packed.circles)) |->
                      copy(packed.circles, (k - 1) \div Len(packed.circles),
                           (k - 1) % Len(packed.circles))],
                  packed.percents, packed.rng) :
               packed \in {PackCircles(0, [circles |-> <<>>, percents |-> <<>>, rng |-> r],
                                       width, height, p, sink)}} : TRUE

\* generate: the Scene returned, the percentages passed to the sink and the stream
\* afterwards, for a call that finds the stream in state r.  An unknown pattern_type
\* selects no branch.
MathRun(width, height, raw, sink, r) ==
    LET select(p) ==
            CASE p.pattern_type = Str("spiral") -> GenerateSpiral(width, height, p, sink, r)
              [] p.pattern_type = Str("wave") -> GenerateWave(width, height, p, sink, r)
              [] p.pattern_type = Str("lissajous") -> GenerateLissajous(width, height, p, sink, r)
              [] p.pattern_type = Str("fractal_tree") ->
                     GenerateFractalTree(width, height, p, sink, r)
              [] p.pattern_type = Str("circle_pack") ->
                     GenerateCirclePack(width, height, p, sink, r)
              [] OTHER -> Drawn(<<>>, <<>>, <<>>, r)
    IN CHOOSE run \in
           {[artwork |-> [ArtworkData(width, height, HexToRgb(p.bg_color)) EXCEPT
                             !.paths = drawn.paths, !.circles = drawn.circles],
             percents |-> drawn.percents,
             rng |-> drawn.rng] :
               p \in {MathParams(raw)},
               drawn \in {select(params) : params \in {MathParams(raw)}}} : TRUE

\* The Scene of a call without a sink that finds the stream in state 0; a pattern
\* that makes no draw returns it whatever the stream.
MathScene(width, height, raw) == MathRun(width, height, raw, FALSE, 0).artwork

MathGenerate(width, height, raw, sink) ==
    /\ gen.pc = "idle"
    /\ \E run \in {MathRun(width, height, raw, sink, rng)} :
          /\ gen' = [IdleGen EXCEPT
                       !.pc = IF HexRaises(DictGet(raw, "background_color", Str("#FFFFFF")))
                              THEN "raised" ELSE "returned",
                       !.generator = "Mathematical Patterns", !.raw = raw,
                       !.width = width, !.height = height, !.sink = sink,
                       !.artwork = run.artwork]
          /\ obs' = [NoObs EXCEPT !.started = TRUE, !.percents = run.percents, !.rng0 = rng]
          /\ rng' = run.rng


MathRaw(density, complexity, symmetry, color) ==
    [density |-> Num(U(density)), complexity |-> Num(U(complexity)),
     symmetry |-> Num(U(symmetry)), color |-> Str(color)]

MathCalls ==
    LET plain == {MathRaw(d, c, sy, col) :
                     d \in {2, 4}, c \in {1, 2}, sy \in {1, 2, 4}, col \in {"#000000", "#FFFFFF"}}
    IN plain \cup {Override(raw, [pattern_type |-> Str(p)]) :
                      raw \in plain, p \in {"spiral", "hexagon"}}

\* Calls of the curve patterns: enough points for several updates of the sink.
CurveCalls ==
    {Override(MathRaw(12, c, sy, "#000000"),
              [pattern_type |-> Str(p), organic_factor |-> Num(o),
               completeness |-> Num(cm)]) :
        c \in {1, 2}, sy \in {1, 2}, p \in {"spiral", "wave", "lissajous"},
        o \in {0}, cm \in {U(1), U(1) \div 2}}
    \cup {Override(MathRaw(12, 1, sy, "#000000"),
                   [pattern_type |-> Str("lissajous"), organic_factor |-> Num(U(1))]) :
             sy \in {1, 2}}

\* Calls of the tree pattern, made on a canvas of 200 x 200, where a tree of depth
\* 6 has 127 branches, and on one of 40 x 40, where the branches of depth 4 are
\* shorter than 2 px.
TreeCalls ==
    {Override(MathRaw(100, c, sy, "#000000"),
              [pattern_type |-> Str("fractal_tree"), completeness |-> Num(cm)]) :
        c \in {1, 2}, sy \in {1, 2, 3}, cm \in {U(1), U(1) \div 2}}

\* Calls of the circle-packing pattern on a canvas of 10 x 10.
PackCalls ==
    {Override(MathRaw(d, 1, sy, "#000000"), [pattern_type |-> Str("circle_pack")]) :
        d \in {2, 6}, sy \in {1, 2}}

MathCall ==
    /\ \E sink \in BOOLEAN :
          \/ \E width \in CanvasSizes, height \in CanvasSizes, raw \in MathCalls \cup CurveCalls :
                MathGenerate(width, height, raw, sink)
          \/ \E size \in {40, 200}, raw \in TreeCalls : MathGenerate(size, size, raw, sink)
          \/ \E raw \in PackCalls : MathGenerate(10, 10, raw, sink)
    /\ UNCHANGED <<win, shellVars>>

MathNext ==
    \/ MathCall
    \/ CallReturn

SpecMath == WalkInit /\ [][MathNext]_vars

\* -- SpecSeed: calls with and without a seed, with draws of other code in between
SeedCalls ==
    {RawCall(n, 10, 10, 360, "wrap", "random", FALSE, sd, mode) :
        n \in {1}, sd \in (-1)..MaxSeed, mode \in {"monochrome", "color"}}

SeedCall ==
    /\ \E raw \in SeedCalls : GenerateCall(1, 1, raw, FALSE)
    /\ UNCHANGED <<win, shellVars>>

\* The caller has the outcome; an observer may keep the first Scene it sees.
SeedReturn ==
    /\ Ended
    /\ gen' = IdleGen
    /\ obs' = NoObs
    /\ \/ hist' = hist
       \/ /\ gen.pc = "returned" /\ ~hist.ref.set
          /\ hist' = [hist EXCEPT !.ref = [set |-> TRUE, raw |-> gen.raw, width |-> gen.width,
                                           height |-> gen.height, artwork |-> gen.artwork,
                                           drawn |-> FALSE]]
    /\ UNCHANGED <<rng, win, worker, after>>

SeedNext ==
    \/ SeedCall
    \/ WalkStart
    \/ WalkStep
    \/ WalkEnd
    \/ GenerateReturn
    \/ SeedReturn
    \/ OtherDraw

SpecSeed == WalkInit /\ [][SeedNext]_vars

\* -- SpecSink: the same calls with and without a sink that returns normally
SinkCalls ==
    {RawCall(2, 10, 10, 360, bb, "random", TRUE, 1, "color") : bb \in {"wrap", "stop"}}
    \cup {RawCall(2, 10, 10, 360, "wrap", "random", TRUE, -1, "color")}

\* One call of every pattern, with organic_factor 0.
SinkMathCalls ==
    {Override(MathRaw(IF p = "circle_pack" THEN 3 ELSE 12, 2, 2, "#000000"),
              [pattern_type |-> Str(p)]) : p \in PatternTypes}

SinkCall ==
    /\ \E raw \in SinkCalls, sink \in BOOLEAN : GenerateCall(1, 1, raw, sink)
    /\ UNCHANGED <<win, shellVars>>

SinkMathCall ==
    /\ \E sink \in BOOLEAN, raw \in SinkMathCalls : MathGenerate(40, 40, raw, sink)
    /\ UNCHANGED <<win, shellVars>>

\* The caller has the outcome; an observer may keep the first Scene a RandomWalk
\* call without a sink returned, and the stream it left.
SinkReturn ==
    /\ Ended
    /\ gen' = IdleGen
    /\ obs' = NoObs
    /\ \/ hist' = hist
       \/ /\ gen.pc = "returned" /\ gen.generator = "Random Walk" /\ ~gen.sink
          /\ ~hist.ref.set
          /\ hist' = [hist EXCEPT !.ref = [set |-> TRUE, raw |-> gen.raw, width |-> gen.width,
                                           height |-> gen.height, artwork |-> gen.artwork,
                                           drawn |-> FALSE, sink |-> gen.sink, rng |-> rng]]
    /\ UNCHANGED <<rng, win, worker, after>>

SinkNext ==
    \/ SinkCall
    \/ SinkMathCall
    \/ WalkStart
    \/ WalkStep
    \/ WalkEnd
    \/ GenerateReturn
    \/ SinkReturn

SpecSink == SeededInit /\ [][SinkNext]_vars

\* -- SpecScene: calls without a sink under every boundary policy, with and without
\* markers, with steps shorter and longer than the canvas; num_walks 0 is below the
\* schema's minimum.
SceneCalls ==
    {RawCall(n, 10, ss, 360, bb, sp, nodes, 0, "monochrome") :
        n \in {0, MaxWalks}, ss \in {U(1), U(3)}, bb \in BoundaryBehaviors,
        sp \in {"center", "corners"}, nodes \in BOOLEAN}

SceneCall ==
    /\ \E raw \in SceneCalls : GenerateCall(1, 1, raw, FALSE)
    /\ UNCHANGED <<win, shellVars>>

SceneNext ==
    \/ SceneCall
    \/ WalkStart
    \/ WalkStep
    \/ WalkEnd
    \/ GenerateReturn
    \/ CallReturn

SpecScene == WalkInit /\ [][SceneNext]_vars

\* -- SpecExport: to_svg and to_png applied to Scenes of a few paths and circles
\* The drawing operations of the paths k.. of a Scene in a vector file: none for a
\* path of fewer than two points, else a polygon or a polyline.  of is the element of
\* the Scene an operation draws.
RECURSIVE SvgPaths(_, _)
SvgPaths(k, paths) ==
    IF k > Len(paths) THEN <<>>
    ELSE LET path == paths[k]
             shape == IF path.closed
                      THEN [shape |-> "polygon", points |-> path.points, fill |-> path.color,
                            stroke |-> path.color, stroke_width |-> path.width,
                            of |-> <<"path", k>>]
                      ELSE [shape |-> "polyline", points |-> path.points, fill |-> NoneRef,
                            stroke |-> path.color, stroke_width |-> path.width,
                            of |-> <<"path", k>>]
         IN (IF Len(path.points) < 2 THEN <<>> ELSE <<shape>>) \o SvgPaths(k + 1, paths)

\* The circles of a Scene in a vector file
SvgCircles(circles) ==
    [k \in 1..Len(circles) |->
        [shape |-> "circle", center |-> circles[k].center, r |-> circles[k].radius,
         fill |-> IF circles[k].fill THEN circles[k].color ELSE NoneRef,
         stroke |-> IF ~circles[k].fill THEN circles[k].color ELSE NoneRef,
         stroke_width |-> circles[k].stroke_width, of |-> <<"circle", k>>]]

\* The background rectangle of a vector file
SvgBackground(artwork) ==
    [shape |-> "rect", insert |-> <<0, 0>>, size |-> <<artwork.width, artwork.height>>,
     fill |-> artwork.background_color, of |-> <<"background", 0>>]

\* A to_svg that would add the circles before the paths.
ToSvgCirclesFirst(artwork) ==
    <<SvgBackground(artwork)>> \o SvgCircles(artwork.circles) \o SvgPaths(1, artwork.paths)

\* to_svg: the elements added to the drawing, in order
ToSvg(artwork) ==
    <<SvgBackground(artwork)>> \o SvgPaths(1, artwork.paths) \o SvgCircles(artwork.circles)

\* The calls of ImageDraw for the paths k.. of a Scene: none for a path of fewer
\* than two points, a polygon for a closed one, one line for an open one of width at
\* most 1 and one line for every segment of a wider one.
RECURSIVE PngPaths(_, _)
PngPaths(k, paths) ==
    IF k > Len(paths) THEN <<>>
    ELSE LET path == paths[k]
             polygon == [shape |-> "polygon", points |-> path.points, fill |-> path.color,
                         outline |-> path.color, of |-> <<"path", k>>]
             line(points) == [shape |-> "line", points |-> points, fill |-> path.color,
                              width |-> Trunc(path.width) \div U(1), of |-> <<"path", k>>]
             calls == IF Len(path.points) < 2 THEN <<>>
                      ELSE IF path.closed THEN <<polygon>>
                      ELSE IF path.width <= U(1) THEN <<line(path.points)>>
                      ELSE [i \in 1..(Len(path.points) - 1) |->
                               line(<<path.points[i], path.points[i + 1]>>)]
         IN calls \o PngPaths(k + 1, paths)

\* The calls of ImageDraw for the circles of a Scene
PngCircles(circles) ==
    [k \in 1..Len(circles) |->
        LET c == circles[k]
            bbox == <<<<c.center[1] - c.radius, c.center[2] - c.radius>>,
                      <<c.center[1] + c.radius, c.center[2] + c.radius>>>>
        IN IF c.fill
           THEN [shape |-> "ellipse", bbox |-> bbox, fill |-> c.color, outline |-> c.color,
                 of |-> <<"circle", k>>]
           ELSE [shape |-> "ellipse", bbox |-> bbox, fill |-> NoneRef, outline |-> c.color,
                 width |-> Trunc(c.stroke_width) \div U(1), of |-> <<"circle", k>>]]

\* to_png: the image created with the background colour, then the calls of
\* ImageDraw, in order
ToPng(artwork) ==
    <<[shape |-> "image", size |-> <<artwork.width, artwork.height>>,
       fill |-> artwork.background_color, of |-> <<"background", 0>>]>>
    \o PngPaths(1, artwork.paths) \o PngCircles(artwork.circles)

\* Paths of 0 to 3 points, open and closed, thin and wide; filled and hollow circles.
ExportPaths ==
    {PathElement(SubSeq(<<<<0, 0>>, <<20, 0>>, <<20, 20>>>>, 1, n), Black, width, closed) :
        n \in 0..3, width \in {U(1) \div 2, U(2)}, closed \in BOOLEAN}

ExportCircles == {CircleElement(<<20, 20>>, 10, Black, fill, U(1)) : fill \in BOOLEAN}

SeqsUpTo2(S) == {<<>>} \cup {<<a>> : a \in S} \cup {<<a, b>> : a \in S, b \in S}

ExportScenes ==
    {[ArtworkData(2, 2, White) EXCEPT !.paths = paths, !.circles = circles] :
        paths \in SeqsUpTo2(ExportPaths), circles \in SeqsUpTo2(ExportCircles)}

ExportInit ==
    /\ gen \in {[IdleGen EXCEPT !.pc = "returned", !.artwork = artwork] :
                   artwork \in ExportScenes}
    /\ rng = RandomSeed(0)
    /\ win = InitWin
    /\ worker = NoWorker
    /\ after = <<>>
    /\ obs = NoObs
    /\ hist = NoHist

ToSvgCall ==
    /\ gen.pc = "returned"
    /\ obs' = [obs EXCEPT !.format = "svg", !.exported = ToSvg(gen.artwork)]
    /\ UNCHANGED <<gen, rng, win, shellVars>>

ToPngCall ==
    /\ gen.pc = "returned"
    /\ obs' = [obs EXCEPT !.format = "png", !.exported = ToPng(gen.artwork)]
    /\ UNCHANGED <<gen, rng, win, shellVars>>

ExportNext ==
    \/ ToSvgCall
    \/ ToPngCall

SpecExport == ExportInit /\ [][ExportNext]_vars

\* -- SpecShell: MainWindow, its worker thread and the callbacks it schedules
ShellCalls ==
    {RawCall(1, 10, 10, 360, bb, "center", FALSE, 1, "monochrome") : bb \in {"stop", "bounce"}}

\* "aborted" in error_msg.lower() or "interrupted" in error_msg.lower()
MentionsAbort(error_msg) == error_msg = "Generation aborted by user"

\* A handler that reports every failure as an error.
GenerationErrorAlwaysDialog(w, error_msg) ==
    [w EXCEPT !.is_generating = FALSE, !.abort_generation = FALSE,
              !.generate_btn = "normal", !.abort_btn = "disabled",
              !.status_var = "Error!", !.error_dialog = TRUE]

\* _on_generation_error: the window afterwards
GenerationError(w, error_msg) ==
    [w EXCEPT !.is_generating = FALSE, !.abort_generation = FALSE,
              !.generate_btn = "normal", !.abort_btn = "disabled",
              !.status_var = IF MentionsAbort(error_msg) THEN "Generation aborted by user"
                             ELSE "Error!",
              !.error_dialog = ~MentionsAbort(error_msg)]

\* A completion handler that leaves the cancellation flag as it is.
GenerationCompleteKeepsAbort(w) ==
    [w EXCEPT !.is_generating = FALSE,
              !.generate_btn = "normal", !.abort_btn = "disabled",
              !.save_png_btn = "normal", !.save_svg_btn = "normal",
              !.status_var = IF Len(w.layer_history) > 1 THEN "Complete! layers"
                             ELSE "Generation complete!"]

\* _on_generation_complete: the window afterwards
GenerationComplete(w) ==
    [w EXCEPT !.is_generating = FALSE, !.abort_generation = FALSE,
              !.generate_btn = "normal", !.abort_btn = "disabled",
              !.save_png_btn = "normal", !.save_svg_btn = "normal",
              !.status_var = IF Len(w.layer_history) > 1 THEN "Complete! layers"
                             ELSE "Generation complete!"]

\* The layers the window holds: the entries of layer_history or the paths of
\* current_artwork, whichever are more.
LayersHeld ==
    LET paths == IF win.current_artwork = NoneRef THEN 0
                 ELSE Len(win.current_artwork[1].paths)
    IN IF paths > Len(win.layer_history) THEN paths ELSE Len(win.layer_history)

\* An _on_generate that starts a worker thread whatever is_generating says, behind
\* a button that is never disabled.
OnGenerateUnguarded ==
    /\ LayersHeld < MaxLayers /\ hist.threads < 2
    /\ win' = [win EXCEPT !.is_generating = TRUE, !.abort_generation = FALSE,
                          !.abort_btn = "normal",
                          !.save_png_btn = "disabled", !.save_svg_btn = "disabled",
                          !.status_var = "Generating...", !.error_dialog = FALSE]
    /\ worker' = [pc |-> "begin", previous_artwork |-> NoneRef]
    /\ hist' = [hist EXCEPT !.snap_artwork = win.current_artwork,
                            !.snap_history = win.layer_history,
                            !.cleared = FALSE, !.abort_requested = FALSE,
                            !.outcome = "none", !.partial = FALSE,
                            !.threads = @ + 1, !.handlers = 0]
    /\ UNCHANGED <<gen, rng, after, obs>>

\* A click on Generate.
OnGenerate ==
    /\ win.generate_btn = "normal"
    /\ LayersHeld < MaxLayers
    /\ IF win.is_generating
       THEN UNCHANGED <<win, worker, hist>>
       ELSE /\ win' = [win EXCEPT !.is_generating = TRUE, !.abort_generation = FALSE,
                                  !.generate_btn = "disabled", !.abort_btn = "normal",
                                  !.save_png_btn = "disabled", !.save_svg_btn = "disabled",
                                  !.status_var = "Generating...", !.error_dialog = FALSE]
            /\ worker' = [pc |-> "begin", previous_artwork |-> NoneRef]
            /\ hist' = [hist EXCEPT !.snap_artwork = win.current_artwork,
                                    !.snap_history = win.layer_history,
                                    !.cleared = FALSE, !.abort_requested = FALSE,
                                    !.outcome = "none", !.partial = FALSE,
                                    !.threads = @ + 1, !.handlers = 0]
    /\ UNCHANGED <<gen, rng, after, obs>>

\* A click on Abort.
OnAbort ==
    /\ win.abort_btn = "normal"
    /\ IF win.is_generating
       THEN /\ win' = [win EXCEPT !.abort_generation = TRUE, !.status_var = "Aborting...",
                                  !.abort_btn = "disabled"]
            /\ hist' = [hist EXCEPT !.abort_requested = TRUE]
            /\ obs' = [obs EXCEPT !.abort_ncb = obs.ncb, !.abort_fresh = obs.fresh]
       ELSE UNCHANGED <<win, hist, obs>>
    /\ UNCHANGED <<gen, rng, worker, after>>

\* A click on Clear Canvas.
OnClear ==
    /\ win' = [win EXCEPT !.current_artwork = NoneRef, !.layer_history = <<>>,
                          !.save_png_btn = "disabled", !.save_svg_btn = "disabled",
                          !.status_var = "Canvas cleared"]
    /\ hist' = [hist EXCEPT !.cleared = @ \/ win.is_generating, !.outcome = "none",
                            !.passes = <<>>]
    /\ UNCHANGED <<gen, rng, worker, after, obs>>

\* The user edits the width and height entries.
OnResize ==
    /\ \E size \in {1, MaxDim} :
          win' = [win EXCEPT !.width_var = size, !.height_var = size]
    /\ UNCHANGED <<gen, rng, worker, after, obs, hist>>

\* A click on the layer-mode checkbox.
ToggleLayerMode ==
    /\ win' = [win EXCEPT !.layer_mode_var = ~@]
    /\ UNCHANGED <<gen, rng, worker, after, obs, hist>>

\* _generate_artwork up to the call of generate.
WorkerBegin ==
    /\ worker.pc = "begin"
    /\ \E raw \in ShellCalls : GenerateCall(win.width_var, win.height_var, raw, TRUE)
    /\ worker' = [pc |-> "generating",
                  previous_artwork |-> IF win.layer_mode_var /\ win.current_artwork # NoneRef
                                       THEN win.current_artwork ELSE NoneRef]
    /\ hist' = [hist EXCEPT !.base_passes =
                   IF win.layer_mode_var /\ win.current_artwork # NoneRef
                   THEN hist.passes ELSE <<>>]
    /\ UNCHANGED <<win, after>>

\* generate returned: self.current_artwork = ...
WorkerStore ==
    /\ worker.pc = "generating" /\ gen.pc = "returned"
    /\ IF worker.previous_artwork # NoneRef
       THEN \E m \in {Merge(gen.width, gen.height, worker.previous_artwork[1], gen.artwork)} :
               /\ win' = [win EXCEPT !.current_artwork = Ref(m.merged)]
               /\ worker' = [pc |-> "stored", previous_artwork |-> Ref(m.previous_artwork)]
               /\ gen' = [gen EXCEPT !.artwork = m.new_artwork]
       ELSE /\ win' = [win EXCEPT !.current_artwork = Ref(gen.artwork)]
            /\ worker' = [worker EXCEPT !.pc = "stored"]
            /\ gen' = gen
    /\ hist' = [hist EXCEPT !.passes = Append(hist.base_passes, gen.artwork)]
    /\ UNCHANGED <<rng, after, obs>>

\* ... then layer_history, and root.after(0, self._on_generation_complete).
WorkerTrack ==
    /\ worker.pc = "stored"
    /\ win' = [win EXCEPT !.layer_history =
                  IF worker.previous_artwork # NoneRef
                  THEN Append(@, win.current_generator_name)
                  ELSE <<win.current_generator_name>>]
    /\ after' = Append(after, [fn |-> "complete", error_msg |-> ""])
    /\ worker' = NoWorker
    /\ gen' = IdleGen
    /\ obs' = NoObs
    /\ hist' = [hist EXCEPT !.threads = @ - 1]
    /\ UNCHANGED rng

\* A worker that ends without a word when generate raised.
WorkerExceptSilent ==
    /\ worker.pc = "generating" /\ gen.pc \in {"aborted", "raised"}
    /\ worker' = NoWorker
    /\ gen' = IdleGen
    /\ obs' = NoObs
    /\ hist' = [hist EXCEPT !.partial = obs.ncb > 0, !.threads = @ - 1]
    /\ UNCHANGED <<rng, win, after>>

\* generate raised: root.after(0, lambda: self._on_generation_error(error_msg)).
WorkerExcept ==
    /\ worker.pc = "generating" /\ gen.pc \in {"aborted", "raised"}
    /\ after' = Append(after, [fn |-> "error",
                               error_msg |-> IF gen.pc = "aborted"
                                             THEN "Generation aborted by user"
                                             ELSE "invalid literal"])
    /\ worker' = NoWorker
    /\ gen' = IdleGen
    /\ obs' = NoObs
    /\ hist' = [hist EXCEPT !.partial = obs.ncb > 0, !.threads = @ - 1]
    /\ UNCHANGED <<rng, win>>

\* The event loop runs a scheduled _on_generation_complete.
OnGenerationComplete ==
    /\ after # <<>> /\ Head(after).fn = "complete"
    /\ after' = Tail(after)
    /\ win' = GenerationComplete(win)
    /\ hist' = [hist EXCEPT !.outcome = "complete", !.handlers = @ + 1]
    /\ UNCHANGED <<gen, rng, worker, obs>>

\* The event loop runs a scheduled _on_generation_error.
OnGenerationError ==
    /\ after # <<>> /\ Head(after).fn = "error"
    /\ after' = Tail(after)
    /\ win' = GenerationError(win, Head(after).error_msg)
    /\ hist' = [hist EXCEPT !.outcome = IF MentionsAbort(Head(after).error_msg)
                                        THEN "aborted" ELSE "error",
                            !.handlers = @ + 1]
    /\ UNCHANGED <<gen, rng, worker, obs>>

ShellNext ==
    \/ OnGenerate
    \/ OnAbort
    \/ OnClear
    \/ OnResize
    \/ ToggleLayerMode
    \/ WorkerBegin
    \/ WalkStart
    \/ WalkStep
    \/ WalkEnd
    \/ GenerateReturn
    \/ WorkerStore
    \/ WorkerTrack
    \/ WorkerExcept
    \/ OnGenerationComplete
    \/ OnGenerationError

SpecShell == SeededInit /\ [][ShellNext]_vars

\* -- SpecLive: the clicks on Generate, Abort and Clear Canvas, a worker thread that
\* keeps running until it ends and an event loop that runs what is scheduled
\* A step of the worker thread, the steps of its generate call included.
WorkerStep ==
    \/ WorkerBegin
    \/ WalkStart
    \/ WalkStep
    \/ WalkEnd
    \/ GenerateReturn
    \/ WorkerStore
    \/ WorkerTrack
    \/ WorkerExcept

\* The event loop runs a callback scheduled with root.after.
EventLoopStep ==
    \/ OnGenerationComplete
    \/ OnGenerationError

LiveNext ==
    \/ OnGenerate
    \/ OnAbort
    \/ OnClear
    \/ WorkerStep
    \/ EventLoopStep

SpecLive ==
    SeededInit /\ [][LiveNext]_vars /\ WF_vars(WorkerStep) /\ WF_vars(EventLoopStep)

\* =================================================================== claims
\* The points of the Scene under construction and of the walk in progress.
SeqRange(seq) == {seq[k] : k \in DOMAIN seq}

ScenePoints ==
    SeqRange(gen.points) \cup UNION {SeqRange(path.points) : path \in SeqRange(gen.artwork.paths)}

CanvasW == U(gen.width)
CanvasH == U(gen.height)

InCanvasClosed(p) == 0 <= p[1] /\ p[1] <= CanvasW /\ 0 <= p[2] /\ p[2] <= CanvasH
InCanvasHalfOpen(p) == 0 <= p[1] /\ p[1] < CanvasW /\ 0 <= p[2] /\ p[2] < CanvasH

Running == gen.pc \notin {"idle", "raised"}
Behavior == gen.params.boundary_behavior.s

\* C1: a call whose sink raises once the cancellation flag is set, and whose flag is
\* set right after the first progress callback returned, never returns a Scene.
C1_AbortAfterFirstCallback ==
    (Running /\ gen.sink /\ obs.abort_ncb = 1 /\ obs.abort_fresh) => gen.pc # "returned"

\* C2: a call during which cancellation is requested, at whatever moment, never
\* returns a Scene.
C2_AbortWheneverRequested ==
    (Running /\ gen.sink /\ obs.abort_ncb >= 0) => gen.pc # "returned"

\* C3: once cancellation is requested, a random walk appends at most one further
\* step point.
C3_AtMostOneFurtherPoint ==
    Running => obs.since_abort <= 1

\* C4: when a generation ended because of cancellation, the status is the neutral
\* 'aborted' status, no error dialog was shown, and current_artwork and
\* layer_history are what they were when Generate was clicked, unless Clear Canvas
\* was clicked during the generation, which leaves both empty.
C4_AbortDiscardsPartialScene ==
    hist.outcome = "aborted" =>
        /\ win.status_var = "Generation aborted by user"
        /\ ~win.error_dialog
        /\ IF hist.cleared
           THEN win.current_artwork = NoneRef /\ win.layer_history = <<>>
           ELSE win.current_artwork = hist.snap_artwork /\ win.layer_history = hist.snap_history

\* C4's case: a generation over a held Scene was aborted after progress callbacks
\* had shown a partial Scene.
C4_Witness ==
    /\ hist.outcome = "aborted" /\ hist.partial /\ ~hist.cleared
    /\ hist.snap_artwork # NoneRef /\ win.layer_mode_var

\* C4 as stated: whenever a generation ended because of cancellation,
\* current_artwork and layer_history are what they were when Generate was clicked.
C4_AsStated ==
    hist.outcome = "aborted" =>
        /\ win.status_var = "Generation aborted by user"
        /\ ~win.error_dialog
        /\ win.current_artwork = hist.snap_artwork /\ win.layer_history = hist.snap_history

\* C5: the map validate_parameters returns has exactly the schema's names as keys,
\* the default where the raw map has no value, every int and float within the
\* schema's [min, max], every choice among the schema's choices; validating its
\* output changes nothing.
C5_ValidatedWithinSchema ==
    (gen.pc \in {"validated", "revalidated"}) =>
        /\ DOMAIN gen.first = ParamNames
        /\ \A name \in ParamNames :
              LET definition == RandomWalkParameters[name]
                  value == gen.first[name]
              IN /\ name \notin DOMAIN gen.raw => value = definition.default
                 /\ definition.type \in {"int", "float"} =>
                       value.t = "num" /\ definition.min <= value.n /\ value.n <= definition.max
                 /\ definition.type = "choice" =>
                       value.t = "str" /\ value.s \in definition.choices
        /\ gen.pc = "revalidated" => gen.params = gen.first

\* C6: no raw map makes validate_parameters or generate raise.
C6_NeverRaises ==
    gen.pc # "raised"

\* C7: MathematicalPatterns.generate with a pattern_type outside the declared
\* choices returns the Scene of the same call with pattern_type 'spiral'.
C7_UnknownPatternIsSpiral ==
    (gen.pc = "returned" /\ gen.generator = "Mathematical Patterns"
        /\ "pattern_type" \in DOMAIN gen.raw
        /\ gen.raw.pattern_type.s \notin PatternTypes) =>
        gen.artwork = MathScene(gen.width, gen.height,
                                Override(gen.raw, [pattern_type |-> Str("spiral")]))

\* C8: under the 'stop' policy, whatever the start policy, every point of the Scene
\* lies in [0, width] x [0, height], and the walk ends at the first candidate outside
\* the canvas, which is not appended.
C8_StopInsideCanvas ==
    (Running /\ Behavior = "stop") =>
        /\ \A p \in ScenePoints : InCanvasClosed(p)
        /\ obs.broke <=> ~InCanvasClosed(obs.cand)
        /\ obs.broke => gen.pc # "step" /\ obs.cand \notin SeqRange(gen.points)

\* C8's case: a 'stop' call returned after a walk of several points ended at the
\* boundary.
C8_Witness ==
    /\ gen.pc = "returned" /\ Behavior = "stop" /\ obs.broke
    /\ \E path \in SeqRange(gen.artwork.paths) : Len(path.points) > 1
    /\ gen.params.start_position.s = "edges"

\* C9: under the 'wrap' policy every point of the Scene, the start point included,
\* satisfies 0 <= x < width and 0 <= y < height.
C9_WrapHalfOpen ==
    (Running /\ Behavior = "wrap") => \A p \in ScenePoints : InCanvasHalfOpen(p)

\* The point sequences of a Scene, path by path.
PointSequences(artwork) == [k \in DOMAIN artwork.paths |-> artwork.paths[k].points]

\* A call returned whose width, height and parameters are those of the call whose
\* Scene the observer kept.
SameCallAgain ==
    /\ gen.pc = "returned" /\ hist.ref.set
    /\ gen.raw = hist.ref.raw /\ gen.width = hist.ref.width /\ gen.height = hist.ref.height

\* C10: two RandomWalk.generate calls with the same seed of at least 1, the same
\* width and height and the same parameters return the same point sequences,
\* whatever calls or draws happened in between.
C10_SeededCallsAgree ==
    (SameCallAgain /\ gen.raw.seed.n >= U(1)) =>
        PointSequences(gen.artwork) = PointSequences(hist.ref.artwork)

\* C10's case: the same seeded call returned again after other code drew from the
\* stream.
C10_Witness ==
    /\ SameCallAgain /\ gen.raw.seed.n >= U(1) /\ hist.ref.drawn
    /\ gen.raw.color_mode.s = "color"

\* C10 as stated: the same for every seed other than 0.
C10_AsStated ==
    (SameCallAgain /\ gen.raw.seed.n # 0) =>
        PointSequences(gen.artwork) = PointSequences(hist.ref.artwork)

\* A call of MathematicalPatterns.generate returned.
MathReturned == gen.pc = "returned" /\ gen.generator = "Mathematical Patterns"

\* C11: once a MathematicalPatterns.generate call with organic_factor 0 has returned,
\* the same call made again returns a Scene with exactly equal paths and circles.
C11_SameCallSameScene ==
    (MathReturned /\ MathParams(gen.raw).organic_factor = 0) =>
        LET again == MathRun(gen.width, gen.height, gen.raw, gen.sink, rng).artwork
        IN again.paths = gen.artwork.paths /\ again.circles = gen.artwork.circles

\* C17: every Path of a Scene the Lissajous pattern returns has closed = false.
C17_LissajousOpen ==
    (MathReturned /\ MathParams(gen.raw).pattern_type = Str("lissajous")) =>
        \A k \in 1..Len(gen.artwork.paths) : ~gen.artwork.paths[k].closed

\* C17's case: a Lissajous call with organic variation returned two curves.
C17_Witness ==
    /\ MathReturned /\ MathParams(gen.raw).pattern_type = Str("lissajous")
    /\ MathParams(gen.raw).organic_factor > 0
    /\ Len(gen.artwork.paths) = 2

\* C18: no two circles of a Scene the circle-packing pattern returns have their
\* centres closer than the sum of their radii plus the tolerance
\* line_width * (1 - organic_factor / 2), up to the fixed-point unit.
C18_CirclesApart ==
    (MathReturned /\ MathParams(gen.raw).pattern_type = Str("circle_pack")) =>
        \A i, j \in 1..Len(gen.artwork.circles) :
            i < j =>
                LET a == gen.artwork.circles[i]
                    b == gen.artwork.circles[j]
                    p == MathParams(gen.raw)
                IN Dist(a.center[1] - b.center[1], a.center[2] - b.center[2]) + 1
                       >= a.radius + b.radius + OverlapTolerance(p.line_width, p.organic_factor)

\* C20: the percentages a MathematicalPatterns.generate call passes to its sink lie
\* within 0..100 and never decrease.
C20_PercentsMonotone ==
    (MathReturned /\ gen.sink) =>
        /\ \A k \in 1..Len(obs.percents) :
              PctLeq(Pct(0, 1), obs.percents[k]) /\ PctLeq(obs.percents[k], Pct(100, 1))
        /\ \A k \in 1..(Len(obs.percents) - 1) : PctLeq(obs.percents[k], obs.percents[k + 1])

\* A RandomWalk.generate call with a sink is under way or has ended.
WalkWithSink == gen.generator = "Random Walk" /\ gen.sink /\ gen.params # NoParams

\* C19: a RandomWalk.generate call with a sink makes one update after every walk i,
\* at (i + 1) / N * 100 and with the path (and the marker) of walk i in the Scene,
\* also when the walk ended early at the boundary; the percentages lie within
\* 0..100 and never decrease, and the last one of a call that returns is 100.
C19_WalkUpdates ==
    WalkWithSink =>
        LET N == IntOf(gen.params.num_walks)
            markers == IF gen.params.add_nodes.n # 0 THEN 1 ELSE 0
        IN /\ PctLeq(Pct(0, 1), obs.last) /\ PctLeq(obs.last, Pct(100, 1))
           /\ PctLeq(obs.prev, obs.last)
           /\ (gen.pc \in {"walk_start", "loop_end", "returned"} /\ gen.i > 0) =>
                  /\ obs.update = [kind |-> "walk", walk |-> gen.i - 1, paths |-> gen.i,
                                   circles |-> markers * gen.i]
                  /\ PctEq(obs.last, Pct(100 * gen.i, N))
                  /\ Len(gen.artwork.paths) = gen.i
                  /\ Len(gen.artwork.circles) = markers * gen.i
           /\ (gen.pc = "returned" /\ N > 0) => PctEq(obs.last, Pct(100, 1))

\* C19's case: a call of two walks returned after its second walk ended early at
\* the boundary, and its sink was updated in the walk before.
C19_Witness ==
    /\ WalkWithSink /\ gen.pc = "returned" /\ gen.i = 2 /\ obs.broke
    /\ Len(gen.artwork.paths[2].points) > 1
    /\ obs.update.kind = "walk" /\ ~PctEq(obs.prev, Pct(50, 1))

\* The same RandomWalk call as the one whose Scene the observer kept returned, one
\* of the two with a sink and the other without.
OtherSinkAgain ==
    /\ SameCallAgain /\ gen.generator = "Random Walk" /\ gen.sink # hist.ref.sink

\* The same MathematicalPatterns call as the one that returned, made from the same
\* state of the stream, with a sink if that one had none and without if it had one.
OtherSinkRun == MathRun(gen.width, gen.height, gen.raw, ~gen.sink, obs.rng0)

C14_LayersKeepSize ==
    (win.current_artwork # NoneRef /\ hist.passes # <<>>) =>
        /\ win.current_artwork[1].width = hist.passes[1].width
        /\ win.current_artwork[1].height = hist.passes[1].height

\* C15: in layer mode the previous Scene of the worker stays the Scene the window
\* held when Generate was clicked, through every update of the sink and the final
\* merge; the Scene generate builds holds its own walks only, and is after the final
\* merge what generate returned; the merged Scene is the two, one after the other.
C15_MergeLeavesOperands ==
    worker.previous_artwork # NoneRef =>
        /\ worker.previous_artwork = hist.snap_artwork
        /\ gen.pc \in {"walk_start", "loop_end", "returned"} =>
               Len(gen.artwork.paths) = gen.i
        /\ (worker.pc = "stored" /\ win.current_artwork # NoneRef) =>
               /\ gen.artwork = hist.passes[Len(hist.passes)]
               /\ win.current_artwork[1].paths
                      = worker.previous_artwork[1].paths \o gen.artwork.paths
               /\ win.current_artwork[1].circles
                      = worker.previous_artwork[1].circles \o gen.artwork.circles

\* C15's case: the final merge of a layered generation whose sink was updated.
C15_Witness ==
    /\ worker.previous_artwork # NoneRef /\ worker.pc = "stored"
    /\ obs.ncb > 1 /\ Len(worker.previous_artwork[1].paths) > 0

\* The place of an element of the Scene in the order background, paths, circles.
ExportRank(of, artwork) ==
    CASE of[1] = "background" -> 0
      [] of[1] = "path" -> of[2]
      [] of[1] = "circle" -> Len(artwork.paths) + of[2]

\* The operations of the last export that draw the element of.
ExportedOf(of) == {i \in 1..Len(obs.exported) : obs.exported[i].of = of}

\* C16: an export starts with the background, then draws the paths in list order,
\* then the circles in list order; a path of fewer than two points is drawn by no
\* operation and the export ends all the same; every circle is drawn by exactly one
\* operation, and in a vector file every path of two or more points by exactly one
\* shape: a polygon if the path is closed, a polyline otherwise.
C16_ExportOrder ==
    obs.format # "none" =>
        LET ops == obs.exported
            artwork == gen.artwork
        IN /\ ops[1].of = <<"background", 0>> /\ ops[1].fill = artwork.background_color
           /\ ExportedOf(<<"background", 0>>) = {1}
           /\ \A i, j \in 1..Len(ops) :
                 i < j => ExportRank(ops[i].of, artwork) <= ExportRank(ops[j].of, artwork)
           /\ \A k \in 1..Len(artwork.circles) : Cardinality(ExportedOf(<<"circle", k>>)) = 1
           /\ \A k \in 1..Len(artwork.paths) :
                 LET drawn == ExportedOf(<<"path", k>>)
                     path == artwork.paths[k]
                 IN /\ Len(path.points) < 2 => drawn = {}
                    /\ Len(path.points) >= 2 => drawn # {}
                    /\ (obs.format = "svg" /\ Len(path.points) >= 2) =>
                           /\ Cardinality(drawn) = 1
                           /\ \A i \in drawn :
                                 /\ ops[i].shape = IF path.closed THEN "polygon" ELSE "polyline"
                                 /\ ops[i].points = path.points

\* C16's case: a vector export of a Scene with a path of one point before a closed
\* path of three points, and with two circles.
C16_Witness ==
    /\ obs.format = "svg" /\ Len(gen.artwork.paths) = 2 /\ Len(gen.artwork.circles) = 2
    /\ Len(gen.artwork.paths[1].points) = 1
    /\ Len(gen.artwork.paths[2].points) = 3 /\ gen.artwork.paths[2].closed
    /\ Len(obs.exported) = 4

\* A call of RandomWalk.generate returned.
WalkReturned == gen.pc = "returned" /\ gen.generator = "Random Walk"

\* C21: the Scene RandomWalk.generate returns has the width and height of the call
\* and exactly num_walks paths (num_walks after validation, at least 1), each of 1
\* to steps_per_walk + 1 points, under every boundary policy; it has num_walks
\* circles if add_nodes is set and none otherwise, the i-th circle centred on the
\* last point of the i-th path.
C21_SceneCounts ==
    WalkReturned =>
        LET artwork == gen.artwork
            num_walks == IntOf(gen.params.num_walks)
            steps == IntOf(gen.params.steps_per_walk)
        IN /\ artwork.width = gen.width /\ artwork.height = gen.height
           /\ num_walks >= 1
           /\ num_walks = IF gen.raw.num_walks.n < U(1) THEN 1 ELSE IntOf(gen.raw.num_walks)
           /\ Len(artwork.paths) = num_walks
           /\ \A k \in 1..Len(artwork.paths) :
                 1 <= Len(artwork.paths[k].points) /\ Len(artwork.paths[k].points) <= steps + 1
           /\ Len(artwork.circles) = IF gen.raw.add_nodes.n # 0 THEN num_walks ELSE 0
           /\ \A k \in 1..Len(artwork.circles) :
                 artwork.circles[k].center
                     = artwork.paths[k].points[Len(artwork.paths[k].points)]

\* C21's case: a 'stop' call with markers returned two walks, one of which ended at
\* the boundary after several points, its marker away from its first point.
C21_Witness ==
    /\ WalkReturned /\ gen.raw.add_nodes.n # 0 /\ Len(gen.artwork.paths) = 2
    /\ Behavior = "stop"
    /\ \E k \in 1..2 :
          /\ Len(gen.artwork.paths[k].points) \in 2..IntOf(gen.params.steps_per_walk)
          /\ gen.artwork.paths[k].points[1] # gen.artwork.circles[k].center

\* C23: under the 'bounce' policy every point of the Scene lies in
\* [0, width] x [0, height], for every step size of the schema.
C23_BounceInside ==
    (Running /\ Behavior = "bounce") => \A p \in ScenePoints : InCanvasClosed(p)

\* C25: the Scene an in-walk update of walk i passes is not the Scene of the
\* generator; its paths are the i walks completed so far, in order, and then one open
\* path of exactly the points appended so far in walk i, its circles are the circles
\* completed so far; after the update the Scene of the generator still holds the i
\* completed walks only, and the points of the walk are what they were.
C25_UpdateScene ==
    (WalkWithSink /\ obs.update.kind = "step") =>
        LET scene == obs.scene[1]
            own == gen.artwork
            i == gen.i
        IN /\ own = obs.own[1] /\ scene # own
           /\ Len(own.paths) = i /\ Len(scene.paths) = i + 1
           /\ SubSeq(scene.paths, 1, i) = own.paths
           /\ scene.paths[i + 1].points = gen.points
           /\ ~scene.paths[i + 1].closed
           /\ scene.circles = own.circles
           /\ scene.width = own.width /\ scene.height = own.height
           /\ scene.background_color = own.background_color

\* C25's case: an update in the second walk of a call with markers, after several
\* steps of that walk.
C25_Witness ==
    /\ WalkWithSink /\ obs.update.kind = "step" /\ gen.i = 1
    /\ Len(gen.points) > 3 /\ Len(obs.scene[1].circles) = 1
    /\ Len(obs.scene[1].paths[1].points) > 1

\* C22: in a Scene the circle-packing pattern returns, every circle was accepted
\* with a gap (centre distance - radius of the other - tolerance) of at least the
\* minimum radius, a tenth of the maximum radius, to every circle accepted before
\* it, up to the fixed-point unit.
C22_RejectedWhenTooClose ==
    (MathReturned /\ MathParams(gen.raw).pattern_type = Str("circle_pack")) =>
        LET p == MathParams(gen.raw)
            placed == Len(gen.artwork.circles) \div p.symmetry
            smaller == IF gen.width < gen.height THEN U(gen.width) ELSE U(gen.height)
            min_radius == (smaller \div 10) \div 10
        IN \A i, j \in 1..placed :
               i < j =>
                   LET a == gen.artwork.circles[i]
                       b == gen.artwork.circles[j]
                   IN Dist(a.center[1] - b.center[1], a.center[2] - b.center[2]) + 1
                          - a.radius - OverlapTolerance(p.line_width, p.organic_factor)
                          >= min_radius

\* C24: a call of the fractal-tree pattern returns, and every branch of its Scene
\* has a depth of at most min(floor(3 * complexity), 12), read from its width
\* line_width * (1 - depth / (max_depth + 1)), and a length of at least 2 px, up to
\* the rounding of its end point; so no child of a branch of the maximum depth is
\* drawn.
C24_TreeBounded ==
    (MathReturned /\ MathParams(gen.raw).pattern_type = Str("fractal_tree")) =>
        LET p == MathParams(gen.raw)
            by3 == (p.complexity * 3) \div U(1)
            max_depth == IF by3 < 12 THEN by3 ELSE 12
        IN \A k \in 1..Len(gen.artwork.paths) :
               LET branch == gen.artwork.paths[k]
                   from == branch.points[1]
                   to == branch.points[2]
               IN /\ \E depth \in 0..max_depth :
                        branch.width = (p.line_width * (max_depth + 1 - depth))
                                           \div (max_depth + 1)
                  /\ Dist(to[1] - from[1], to[2] - from[2]) + 2 >= U(2)

\* C24's case: a tree on the small canvas with max_depth 6, whose branches stop at
\* depth 3 because their children would be shorter than 2 px: 15 branches.
C24_Witness ==
    /\ MathReturned /\ MathParams(gen.raw).pattern_type = Str("fractal_tree")
    /\ MathParams(gen.raw).symmetry = 1 /\ MathParams(gen.raw).completeness = U(1)
    /\ Len(gen.artwork.paths) = 15
    /\ gen.width = 40 /\ MathParams(gen.raw).complexity = U(2)

\* C26: at most one worker thread, and so at most one generate call, runs at any
\* time, and only while is_generating is true; no click starts a worker thread
\* while is_generating is true; is_generating becomes false only when the event
\* loop runs the handler the worker of the running generation scheduled when it
\* ended.
C26_OneGeneration ==
    /\ [](/\ hist.threads <= 1
          /\ hist.threads = (IF worker.pc = "none" THEN 0 ELSE 1)
          /\ (hist.threads = 1 \/ gen.pc # "idle") => win.is_generating)
    /\ [][/\ win.is_generating => hist'.threads <= hist.threads
          /\ (win.is_generating /\ ~win'.is_generating) =>
                /\ hist.threads = 0 /\ after # <<>> /\ after' = Tail(after)
                /\ hist'.handlers = 1]_vars

\* C26's case: the generate call of a second generation is under way after Abort
\* and Clear Canvas were clicked during it.
C26_Witness ==
    /\ gen.pc = "step" /\ hist.threads = 1 /\ win.is_generating
    /\ hist.abort_requested /\ hist.cleared /\ hist.snap_artwork # NoneRef

\* C27: abort_generation is true only while is_generating is true, it is false
\* when a generation starts, and a generation ends as aborted only if Abort was
\* clicked during it.
C27_AbortOnlyWhileGenerating ==
    /\ [](/\ win.abort_generation => win.is_generating
          /\ hist.outcome = "aborted" => hist.abort_requested)
    /\ [][hist'.threads > hist.threads => ~win'.abort_generation]_vars

\* C27's case: Abort was clicked after the generate call had returned and before
\* the completion handler ran.
C27_Witness ==
    /\ win.abort_generation /\ win.is_generating /\ worker.pc = "none"
    /\ after # <<>> /\ Head(after).fn = "complete"

\* C28: every generation that Generate starts reaches its completion handler or its
\* error handler, once and not both, and then is_generating is false and the
\* Generate button enabled, if the worker keeps running and the event loop runs
\* what is scheduled.
C28_GenerationEnds ==
    /\ [](hist.handlers <= 1 /\ (win.is_generating => hist.handlers = 0))
    /\ win.is_generating
           ~> (~win.is_generating /\ win.generate_btn = "normal" /\ hist.handlers = 1)

\* C28's case: a generation ended in the error handler after its generate call was
\* aborted.
C28_Witness ==
    /\ ~win.is_generating /\ hist.handlers = 1 /\ hist.outcome = "aborted"
    /\ win.generate_btn = "normal"

\* C29: after Clear Canvas was clicked during a generation, current_artwork and
\* layer_history are empty until Generate is clicked again; and whenever
\* current_artwork is set and no worker is about to extend layer_history, the length
\* of layer_history is the number of passes current_artwork is made of.
C29_ClearedStaysEmpty ==
    /\ hist.cleared => (win.current_artwork = NoneRef /\ win.layer_history = <<>>)
    /\ (win.current_artwork # NoneRef /\ worker.pc # "stored") =>
           Len(win.layer_history) = Len(hist.passes)

\* C30: a Save button is enabled only if current_artwork is set and no generation
\* is running.
C30_SaveNeedsArtwork ==
    (win.save_png_btn = "normal" \/ win.save_svg_btn = "normal") =>
        (win.current_artwork # NoneRef /\ ~win.is_generating)

====
